---- MODULE Spec2Model ----
(***************************************************************************)
(* State-trie migration pallet (frame/state-trie-migration/src/lib.rs).    *)
(*                                                                         *)
(* The model follows the pallet one handler at a time.  The bounded driver *)
(* migrate_until_exhaustion is stepped tick by tick: pc = "loop" is the    *)
(* head of its loop, pc = "done" is the point where it has returned to the *)
(* handler that called it, pc = "ret" is the handler having returned its   *)
(* result, pc = "idle" is between two handlers.                            *)
(*                                                                         *)
(* Option<T> is a sequence of length at most one: None is <<>> and Some(x) *)
(* is <<x>>.  A key (Vec<u8>) is a sequence of bytes; a value (Vec<u8>) is *)
(* represented by its byte length n, standing for vec![1u8; n].            *)
(***************************************************************************)
EXTENDS Integers, Sequences, FiniteSets, TLC

VARIABLES
    top,              \* top trie: key -> Option<value>
    child,            \* default child tries: namespace id -> key -> Option<value>
    top0,             \* the top trie at genesis (never written by any action)
    child0,           \* the child tries at genesis
    topW,             \* per top key: storage::set was called on it (it is re-encoded)
    childW,           \* per child entry: default_child_storage::set was called on it
    twice,            \* some entry was set again after it had been set already
    MigrationProcess, \* storage value: the encoded MigrationTask
    AutoLimits,       \* storage value: Option<MigrationLimits>
    free,             \* free balance per account
    pc,               \* position of the running handler
    call,             \* arguments of the running handler
    task,             \* the handler's local `task: MigrationTask`
    io,               \* storage accesses of the running / last handler
    events,           \* events deposited by the running / last handler
    result            \* what the last handler returned

vars == <<top, child, top0, child0, topW, childW, twice, MigrationProcess, AutoLimits,
          free, pc, call, task, io, events, result>>

---------------------------------------------------------------------------
(* Bounds of the model *)

\* the values of the genesis stores are at most MaxValueLen bytes long
MaxValueLen == 2
\* free balance of the funded account at genesis
InitBalance == 7
\* the access counters of a handler stop counting at MaxTicks
MaxTicks == 16

(* Program constants *)

\* stands for u32::MAX (2^32 - 1): the largest integer of the model; no counter
\* of the model gets near either value
U32_MAX == 2147483647
SignedDepositPerItem == 1
SignedDepositBase == 5
SignedMaxSize == 1024
SignedMaxItem == 5

---------------------------------------------------------------------------
(* Option *)

None == <<>>
Some(x) == <<x>>
IsSome(o) == o # None
Unwrap(o) == o[1]

Min(a, b) == IF a <= b THEN a ELSE b

\* u32::saturating_add: the sum, or the largest value when the sum is beyond it
saturating_add(a, b) == IF a >= U32_MAX - b THEN U32_MAX ELSE a + b

---------------------------------------------------------------------------
(* Keys and the host store *)

\* DEFAULT_CHILD_STORAGE_KEY_PREFIX, one byte long here
DEFAULT_CHILD_STORAGE_KEY_PREFIX == <<1>>

KeyA == <<0>>
Root0 == <<1, 0>>
Root1 == <<1, 1>>
KeyZ == <<2>>
TopKeys == {KeyA, Root0, Root1, KeyZ}
ChildIds == {<<0>>, <<1>>}
ChildKeys == {<<>>, <<0>>, <<1>>}

starts_with(key, prefix) ==
    /\ Len(key) >= Len(prefix)
    /\ SubSeq(key, 1, Len(prefix)) = prefix

\* the order of Vec<u8>: lexicographic, a proper prefix first
RECURSIVE LexLess(_, _)
LexLess(a, b) ==
    IF a = <<>> THEN b # <<>>
    ELSE IF b = <<>> THEN FALSE
    ELSE IF a[1] # b[1] THEN a[1] < b[1]
    ELSE LexLess(Tail(a), Tail(b))

\* the least key of `keys` strictly greater than k
LeastAbove(keys, k) ==
    LET gt == {x \in keys : LexLess(k, x)}
    IN  IF gt = {} THEN None
        ELSE Some(CHOOSE x \in gt : \A y \in gt : x = y \/ LexLess(x, y))

\* sp_io::storage::get / next_key
storage_get(t, key) == IF key \in DOMAIN t THEN t[key] ELSE None
storage_next_key(t, key) == LeastAbove({k \in DOMAIN t : IsSome(t[k])}, key)

\* sp_io::default_child_storage::get / next_key
child_get(c, id, key) ==
    IF id \in DOMAIN c /\ key \in DOMAIN c[id] THEN c[id][key] ELSE None
child_next_key(c, id, key) ==
    IF id \in DOMAIN c
    THEN LeastAbove({k \in DOMAIN c[id] : IsSome(c[id][k])}, key)
    ELSE None

\* Pallet::child_io_key: the namespace id behind the prefix, if the prefix is there
child_io_key(root) ==
    IF starts_with(root, DEFAULT_CHILD_STORAGE_KEY_PREFIX)
    THEN Some(SubSeq(root, Len(DEFAULT_CHILD_STORAGE_KEY_PREFIX) + 1, Len(root)))
    ELSE None

\* sp_io::storage::set / default_child_storage::set
storage_set(t, key, value) ==
    IF key \in DOMAIN t THEN [t EXCEPT ![key] = Some(value)]
    ELSE t @@ (key :> Some(value))
child_set(c, id, key, value) ==
    IF id \in DOMAIN c /\ key \in DOMAIN c[id]
    THEN [c EXCEPT ![id][key] = Some(value)]
    ELSE c

\* the written flags: one more set() of this entry
WrittenTop(w, key) == key \in DOMAIN w /\ w[key]
WrittenChild(w, id, key) == id \in DOMAIN w /\ key \in DOMAIN w[id] /\ w[id][key]
MarkTop(w, key) ==
    IF key \in DOMAIN w THEN [w EXCEPT ![key] = TRUE] ELSE w
MarkChild(w, id, key) ==
    IF id \in DOMAIN w /\ key \in DOMAIN w[id]
    THEN [w EXCEPT ![id][key] = TRUE]
    ELSE w

\* the access counters of one handler
NoIo == [ticks |-> 0, reads |-> 0, writes |-> 0, nexts |-> 0, last_len |-> 0]
IoRead(i, data) ==
    [i EXCEPT !.reads = Min(@ + 1, MaxTicks),
              !.last_len = IF IsSome(data) THEN Unwrap(data) ELSE 0]
IoWrite(i) == [i EXCEPT !.writes = Min(@ + 1, MaxTicks)]
IoNext(i) == [i EXCEPT !.nexts = Min(@ + 1, MaxTicks)]
IoTick(i) == [i EXCEPT !.ticks = Min(@ + 1, MaxTicks)]

---------------------------------------------------------------------------
(* MigrationTask *)

\* impl Default for MigrationTask
DefaultTask ==
    [current_top |-> Some(<<>>), current_child |-> None, prev_tick_child |-> FALSE,
     dyn_top_items |-> 0, dyn_child_items |-> 0, dyn_size |-> 0,
     size |-> 0, top_items |-> 0, child_items |-> 0]

\* derive(Encode): the #[codec(skip)] fields are not written
Encode(t) ==
    [current_top |-> t.current_top, current_child |-> t.current_child,
     prev_tick_child |-> t.prev_tick_child,
     size |-> t.size, top_items |-> t.top_items, child_items |-> t.child_items]

\* derive(Decode): the #[codec(skip)] fields take their default
Decode(p) ==
    [current_top |-> p.current_top, current_child |-> p.current_child,
     prev_tick_child |-> p.prev_tick_child,
     dyn_top_items |-> 0, dyn_child_items |-> 0, dyn_size |-> 0,
     size |-> p.size, top_items |-> p.top_items, child_items |-> p.child_items]

finished(t) == t.current_top = None /\ t.current_child = None

dyn_total_items(t) == saturating_add(t.dyn_child_items, t.dyn_top_items)

\* exhausted, the item limit compared with > in place of >=
exhausted_item_late(t, limits) ==
    \/ t.current_top = None
    \/ dyn_total_items(t) > limits.item
    \/ t.dyn_size >= limits.size

\* exhausted, without the size limit
exhausted_no_size(t, limits) ==
    \/ t.current_top = None
    \/ dyn_total_items(t) >= limits.item

\* exhausted, without the end of the store
exhausted_no_end(t, limits) ==
    \/ dyn_total_items(t) >= limits.item
    \/ t.dyn_size >= limits.size

exhausted(t, limits) ==
    \/ t.current_top = None
    \/ dyn_total_items(t) >= limits.item
    \/ t.dyn_size >= limits.size

\* the early return taken only when both limits are zero
limits_zero_both(limits) == limits.item = 0 /\ limits.size = 0

\* the early return of migrate_until_exhaustion
limits_zero(limits) == limits.item = 0 \/ limits.size = 0

\* u32 addition that wraps at the largest value
wrapping_add(a, b) == IF a > U32_MAX - b THEN a - (U32_MAX - b) - 1 ELSE a + b

\* the accumulation with wrapping additions
accumulate_wrapping(t) ==
    [t EXCEPT !.size = wrapping_add(@, t.dyn_size),
              !.child_items = wrapping_add(@, t.dyn_child_items),
              !.top_items = wrapping_add(@, t.dyn_top_items)]

\* the tail of migrate_until_exhaustion: accumulate the dynamic counters
accumulate(t) ==
    [t EXCEPT !.size = saturating_add(@, t.dyn_size),
              !.child_items = saturating_add(@, t.dyn_child_items),
              !.top_items = saturating_add(@, t.dyn_top_items)]

(* The tick works on a machine m: the task, the store it reads and writes, *)
(* the counters, and whether Pallet::halt was called.                      *)

\* Pallet::child_io_key_or_halt: the id, or halt and the default (empty) id
child_io_key_or_halt(root) ==
    LET key == child_io_key(root)
    IN  [halt |-> key = None, id |-> IF IsSome(key) THEN Unwrap(key) ELSE <<>>]

\* migrate_top that leaves current_top where it was
migrate_top_stay(m) ==
    LET last_top == Unwrap(m.task.current_top)
        data == storage_get(m.top, last_top)
        m1 == IF IsSome(data)
              THEN [m EXCEPT !.task.dyn_size = saturating_add(@, Unwrap(data)),
                             !.top = storage_set(@, last_top, Unwrap(data)),
                             !.topW = MarkTop(@, last_top),
                             !.twice = @ \/ WrittenTop(m.topW, last_top),
                             !.io = IoWrite(IoRead(@, data))]
              ELSE [m EXCEPT !.io = IoRead(@, data)]
    IN  [m1 EXCEPT !.task.dyn_top_items = saturating_add(@, 1),
                   !.io = IoNext(@)]

\* migrate_top that counts an item only when the key holds a value
migrate_top_absent_free(m) ==
    LET last_top == Unwrap(m.task.current_top)
        data == storage_get(m.top, last_top)
        m1 == IF IsSome(data)
              THEN [m EXCEPT !.task.dyn_size = saturating_add(@, Unwrap(data)),
                             !.task.dyn_top_items = saturating_add(@, 1),
                             !.top = storage_set(@, last_top, Unwrap(data)),
                             !.topW = MarkTop(@, last_top),
                             !.twice = @ \/ WrittenTop(m.topW, last_top),
                             !.io = IoWrite(IoRead(@, data))]
              ELSE [m EXCEPT !.io = IoRead(@, data)]
    IN  [m1 EXCEPT !.task.current_top = storage_next_key(m1.top, last_top),
                   !.io = IoNext(@)]

migrate_top(m) ==
    LET last_top == Unwrap(m.task.current_top)
        data == storage_get(m.top, last_top)
        m1 == IF IsSome(data)
              THEN [m EXCEPT !.task.dyn_size = saturating_add(@, Unwrap(data)),
                             !.top = storage_set(@, last_top, Unwrap(data)),
                             !.topW = MarkTop(@, last_top),
                             !.twice = @ \/ WrittenTop(m.topW, last_top),
                             !.io = IoWrite(IoRead(@, data))]
              ELSE [m EXCEPT !.io = IoRead(@, data)]
    IN  [m1 EXCEPT !.task.dyn_top_items = saturating_add(@, 1),
                   !.task.current_top = storage_next_key(m1.top, last_top),
                   !.io = IoNext(@)]

\* migrate_child that moves current_top on when the child trie is done
migrate_child_ascend(m) ==
    LET last_child == Unwrap(m.task.current_child)
        last_top == Unwrap(m.task.current_top)
        k == child_io_key_or_halt(last_top)
        child_root == k.id
        data == child_get(m.child, child_root, last_child)
        next == child_next_key(m.child, child_root, last_child)
        m1 == IF IsSome(data)
              THEN [m EXCEPT !.task.dyn_size = saturating_add(@, Unwrap(data)),
                             !.child = child_set(@, child_root, last_child, Unwrap(data)),
                             !.childW = MarkChild(@, child_root, last_child),
                             !.twice = @ \/ WrittenChild(m.childW, child_root, last_child),
                             !.io = IoWrite(IoRead(@, data))]
              ELSE [m EXCEPT !.io = IoRead(@, data)]
    IN  [m1 EXCEPT !.halt = @ \/ k.halt,
                   !.task.dyn_child_items = saturating_add(@, 1),
                   !.task.current_child = next,
                   !.task.current_top =
                       IF next = None THEN storage_next_key(m1.top, last_top) ELSE @,
                   !.io = IoNext(@)]

migrate_child(m) ==
    LET last_child == Unwrap(m.task.current_child)
        last_top == Unwrap(m.task.current_top)
        k == child_io_key_or_halt(last_top)
        child_root == k.id
        data == child_get(m.child, child_root, last_child)
        m1 == IF IsSome(data)
              THEN [m EXCEPT !.task.dyn_size = saturating_add(@, Unwrap(data)),
                             !.child = child_set(@, child_root, last_child, Unwrap(data)),
                             !.childW = MarkChild(@, child_root, last_child),
                             !.twice = @ \/ WrittenChild(m.childW, child_root, last_child),
                             !.io = IoWrite(IoRead(@, data))]
              ELSE [m EXCEPT !.io = IoRead(@, data)]
    IN  [m1 EXCEPT !.halt = @ \/ k.halt,
                   !.task.dyn_child_items = saturating_add(@, 1),
                   !.task.current_child = child_next_key(m1.child, child_root, last_child),
                   !.io = IoNext(@)]

\* the (true, false) arm that counts its read as a child item
descend_counted(m) ==
    LET top_key == Unwrap(m.task.current_top)
        k == child_io_key_or_halt(top_key)
        data == child_get(m.child, k.id, <<>>)
        maybe_first_child_key == child_next_key(m.child, k.id, <<>>)
    IN  [m EXCEPT !.halt = @ \/ k.halt,
                  !.io = IoNext(IoRead(@, data)),
                  !.task.dyn_child_items = saturating_add(@, 1),
                  !.task.current_child = maybe_first_child_key,
                  !.task.prev_tick_child = TRUE]

\* the (true, false) arm: read the empty child key, look for the first child key
descend(m) ==
    LET top_key == Unwrap(m.task.current_top)
        k == child_io_key_or_halt(top_key)
        data == child_get(m.child, k.id, <<>>)
        maybe_first_child_key == child_next_key(m.child, k.id, <<>>)
    IN  [m EXCEPT !.halt = @ \/ k.halt,
                  !.io = IoNext(IoRead(@, data)),
                  !.task.current_child = maybe_first_child_key,
                  !.task.prev_tick_child = TRUE]

\* migrate_tick that takes the top arm while current_child is present
migrate_tick_top_first(m) ==
    LET t == m.task
    IN  IF IsSome(t.current_top) /\ IsSome(t.current_child) THEN migrate_top(m)
        ELSE IF IsSome(t.current_top) THEN
            LET is_root == starts_with(Unwrap(t.current_top), DEFAULT_CHILD_STORAGE_KEY_PREFIX)
            IN  IF ~is_root /\ ~t.prev_tick_child THEN migrate_top(m)
                ELSE IF is_root /\ ~t.prev_tick_child THEN descend(m)
                ELSE IF is_root /\ t.prev_tick_child
                     THEN migrate_top([m EXCEPT !.task.prev_tick_child = FALSE])
                ELSE [m EXCEPT !.halt = TRUE]
        ELSE IF IsSome(t.current_child) THEN [m EXCEPT !.halt = TRUE]
        ELSE m

\* migrate_tick whose (true, true) arm leaves prev_tick_child set
migrate_tick_ascend_keeps_flag(m) ==
    LET t == m.task
    IN  IF IsSome(t.current_top) /\ IsSome(t.current_child) THEN migrate_child(m)
        ELSE IF IsSome(t.current_top) THEN
            LET is_root == starts_with(Unwrap(t.current_top), DEFAULT_CHILD_STORAGE_KEY_PREFIX)
            IN  IF ~is_root /\ ~t.prev_tick_child THEN migrate_top(m)
                ELSE IF is_root /\ ~t.prev_tick_child THEN descend(m)
                ELSE IF is_root /\ t.prev_tick_child THEN migrate_top(m)
                ELSE [m EXCEPT !.halt = TRUE]
        ELSE IF IsSome(t.current_child) THEN [m EXCEPT !.halt = TRUE]
        ELSE m

\* migrate_tick whose (None, None) arm goes back to the first key
migrate_tick_starts_over(m) ==
    LET t == m.task
    IN  IF IsSome(t.current_top) /\ IsSome(t.current_child) THEN migrate_child(m)
        ELSE IF IsSome(t.current_top) THEN
            LET is_root == starts_with(Unwrap(t.current_top), DEFAULT_CHILD_STORAGE_KEY_PREFIX)
            IN  IF ~is_root /\ ~t.prev_tick_child THEN migrate_top(m)
                ELSE IF is_root /\ ~t.prev_tick_child THEN descend(m)
                ELSE IF is_root /\ t.prev_tick_child
                     THEN migrate_top([m EXCEPT !.task.prev_tick_child = FALSE])
                ELSE [m EXCEPT !.halt = TRUE]
        ELSE IF IsSome(t.current_child) THEN [m EXCEPT !.halt = TRUE]
        ELSE [m EXCEPT !.task.current_top = Some(<<>>)]

migrate_tick(m) ==
    LET t == m.task
    IN  IF IsSome(t.current_top) /\ IsSome(t.current_child) THEN migrate_child(m)
        ELSE IF IsSome(t.current_top) THEN
            LET is_root == starts_with(Unwrap(t.current_top), DEFAULT_CHILD_STORAGE_KEY_PREFIX)
            IN  IF ~is_root /\ ~t.prev_tick_child THEN migrate_top(m)
                ELSE IF is_root /\ ~t.prev_tick_child THEN descend(m)
                ELSE IF is_root /\ t.prev_tick_child
                     THEN migrate_top([m EXCEPT !.task.prev_tick_child = FALSE])
                ELSE [m EXCEPT !.halt = TRUE]
        ELSE IF IsSome(t.current_child) THEN [m EXCEPT !.halt = TRUE]
        ELSE m

\* the loop of migrate_until_exhaustion, run to its end on a machine; the store
\* is finite, `fuel` bounds the ticks of a loop that does not end
RECURSIVE until_exhaustion(_, _, _)
until_exhaustion(m, limits, fuel) ==
    LET m1 == migrate_tick([m EXCEPT !.io = IoTick(@)])
    IN  IF exhausted(m1.task, limits) \/ fuel = 0 THEN m1
        ELSE until_exhaustion(m1, limits, fuel - 1)

\* MigrationTask::migrate_until_exhaustion as a function of the machine
migrate_until_exhaustion(m, limits) ==
    IF limits_zero(limits) THEN m
    ELSE [until_exhaustion(m, limits, MaxTicks) EXCEPT !.task = accumulate(@)]

---------------------------------------------------------------------------
(* Genesis *)

\* the shapes of the genesis stores: the top keys and the keys of each child trie
StoreShapes ==
    { [tk |-> {KeyA, KeyZ},         ck |-> (<<0>> :> {} @@ <<1>> :> {})],
      [tk |-> {KeyA, Root0, KeyZ},  ck |-> (<<0>> :> {<<0>>, <<1>>} @@ <<1>> :> {})],
      [tk |-> {Root0, Root1},       ck |-> (<<0>> :> {} @@ <<1>> :> {<<0>>})],
      [tk |-> {KeyA, Root0},        ck |-> (<<0>> :> {<<>>, <<1>>} @@ <<1>> :> {})],
      [tk |-> {Root0, Root1, KeyZ}, ck |-> (<<0>> :> {<<0>>} @@ <<1>> :> {<<>>})] }

\* the byte length of the value each key holds at genesis, capped at MaxValueLen
TopValueLen == (KeyA :> 1 @@ Root0 :> 2 @@ Root1 :> 0 @@ KeyZ :> 3)
ChildValueLen ==
    (<<0>> :> (<<>> :> 2 @@ <<0>> :> 1 @@ <<1>> :> 3)
     @@ <<1>> :> (<<>> :> 1 @@ <<0>> :> 0 @@ <<1>> :> 2))

GenesisTop(shape) ==
    [k \in TopKeys |->
        IF k \in shape.tk THEN Some(Min(TopValueLen[k], MaxValueLen)) ELSE None]
GenesisChild(shape) ==
    [id \in ChildIds |->
        [k \in ChildKeys |->
            IF k \in shape.ck[id] THEN Some(Min(ChildValueLen[id][k], MaxValueLen))
            ELSE None]]

Accounts == {1, 2}

MigrationLimits(item, size) == [size |-> size, item |-> item]

NoCall == [op |-> "none", who |-> 0, limits |-> MigrationLimits(0, 0),
           real_size_upper |-> 0, deposit |-> 0,
           witness_task |-> DefaultTask, top_key |-> <<>>, keys |-> <<>>,
           origin |-> "none", maybe_config |-> None]
NoResult == [ret |-> "none", pays |-> "Yes", weight |-> None]

Init ==
    /\ \E shape \in StoreShapes :
          /\ top = GenesisTop(shape)
          /\ child = GenesisChild(shape)
    /\ top0 = top
    /\ child0 = child
    /\ topW = [k \in TopKeys |-> FALSE]
    /\ childW = [id \in ChildIds |-> [k \in ChildKeys |-> FALSE]]
    /\ twice = FALSE
    /\ MigrationProcess = Encode(DefaultTask)
    /\ AutoLimits = None
    /\ free = [a \in Accounts |-> IF a = 1 THEN InitBalance ELSE 0]
    /\ pc = "idle"
    /\ call = NoCall
    /\ task = DefaultTask
    /\ io = NoIo
    /\ events = <<>>
    /\ result = NoResult

---------------------------------------------------------------------------
(* Events, results, balances *)

Migrated(t, c, compute) == [name |-> "Migrated", top |-> t, child |-> c, compute |-> compute]
Slashed(who, amount) == [name |-> "Slashed", who |-> who, amount |-> amount]

\* a weight, kept as the terms of its sum: database reads and writes, the
\* argument of WeightInfo::process_top_key, the fixed WeightInfo term
NoWeight == [reads |-> 0, writes |-> 0, process_top_key |-> None, info |-> "none"]
reads(n) == [NoWeight EXCEPT !.reads = n]
reads_writes(r, w) == [NoWeight EXCEPT !.reads = r, !.writes = w]
WeightInfo(name) == [NoWeight EXCEPT !.info = name]

\* Pallet::dynamic_weight: items x reads_writes(1, 1) + process_top_key(size)
dynamic_weight(items, size) ==
    [reads_writes(items, items) EXCEPT !.process_top_key = Some(size)]

\* what a handler returns; weight is the weight it reports itself, None when it
\* leaves the weight declared before dispatch
Ok(pays) == [ret |-> "Ok", pays |-> pays, weight |-> None]
Err(e) == [ret |-> e, pays |-> "Yes", weight |-> None]
WithWeight(r, w) == [r EXCEPT !.weight = Some(w)]

\* Currency::can_slash and Currency::slash of the balances pallet
can_slash(f, who, value) == value = 0 \/ f[who] >= value
slash(f, who, value) == [f EXCEPT ![who] = @ - Min(@, value)]

\* Pallet::migration_process(): the stored task, decoded
migration_process == Decode(MigrationProcess)

\* the machine a tick of the running handler works on
Machine ==
    [task |-> task, top |-> top, child |-> child, topW |-> topW, childW |-> childW,
     twice |-> twice, io |-> io, halt |-> FALSE]

---------------------------------------------------------------------------
(* The bounded driver: one iteration of the loop of migrate_until_exhaustion *)

\* the loop body that does not count the bytes of an entry set before
Tick_skip_known_bytes ==
    /\ pc = "loop"
    /\ LET m0 == migrate_tick([Machine EXCEPT !.io = IoTick(@)])
           m == IF m0.twice /\ ~twice THEN [m0 EXCEPT !.task.dyn_size = task.dyn_size]
                ELSE m0
           stop == exhausted(m.task, call.limits)
       IN  /\ task' = IF stop THEN accumulate(m.task) ELSE m.task
           /\ pc' = IF stop THEN "done" ELSE "loop"
           /\ top' = m.top
           /\ child' = m.child
           /\ topW' = m.topW
           /\ childW' = m.childW
           /\ twice' = m.twice
           /\ io' = m.io
           /\ AutoLimits' = IF m.halt THEN None ELSE AutoLimits
    /\ UNCHANGED <<top0, child0, MigrationProcess, free, call, events, result>>

\* the loop body with a halt() that leaves AutoLimits in place
Tick_halt_keeps_limits ==
    /\ pc = "loop"
    /\ LET m == migrate_tick([Machine EXCEPT !.io = IoTick(@)])
           stop == exhausted(m.task, call.limits)
       IN  /\ task' = IF stop THEN accumulate(m.task) ELSE m.task
           /\ pc' = IF stop THEN "done" ELSE "loop"
           /\ top' = m.top
           /\ child' = m.child
           /\ topW' = m.topW
           /\ childW' = m.childW
           /\ twice' = m.twice
           /\ io' = m.io
    /\ UNCHANGED <<top0, child0, MigrationProcess, free, call, events, result, AutoLimits>>

Tick ==
    /\ pc = "loop"
    /\ LET m == migrate_tick([Machine EXCEPT !.io = IoTick(@)])
           stop == exhausted(m.task, call.limits)
       IN  /\ task' = IF stop THEN accumulate(m.task) ELSE m.task
           /\ pc' = IF stop THEN "done" ELSE "loop"
           /\ top' = m.top
           /\ child' = m.child
           /\ topW' = m.topW
           /\ childW' = m.childW
           /\ twice' = m.twice
           /\ io' = m.io
           /\ AutoLimits' = IF m.halt THEN None ELSE AutoLimits
    /\ UNCHANGED <<top0, child0, MigrationProcess, free, call, events, result>>

---------------------------------------------------------------------------
(* Hooks::on_initialize *)

\* on_initialize that, with AutoLimits None, reports as an active block with no item
OnInitializeIdle_as_active ==
    /\ pc = "idle"
    /\ AutoLimits = None
    /\ io' = NoIo
    /\ events' = <<Migrated(0, 0, "Auto")>>
    /\ result' = WithWeight(Ok("Yes"), dynamic_weight(0, 0))
    /\ call' = [NoCall EXCEPT !.op = "on_initialize"]
    /\ pc' = "ret"
    /\ UNCHANGED <<top, child, top0, child0, topW, childW, twice, MigrationProcess,
                   AutoLimits, free, task>>

\* AutoLimits is None: nothing but the lookup
OnInitializeIdle ==
    /\ pc = "idle"
    /\ AutoLimits = None
    /\ io' = NoIo
    /\ events' = <<>>
    /\ result' = WithWeight(Ok("Yes"), reads(1))
    /\ call' = [NoCall EXCEPT !.op = "on_initialize"]
    /\ pc' = "ret"
    /\ UNCHANGED <<top, child, top0, child0, topW, childW, twice, MigrationProcess,
                   AutoLimits, free, task>>

\* AutoLimits is Some(limits): load the task and enter the driver
OnInitializeBegin ==
    /\ pc = "idle"
    /\ IsSome(AutoLimits)
    /\ task' = migration_process
    /\ call' = [NoCall EXCEPT !.op = "auto", !.limits = Unwrap(AutoLimits)]
    /\ pc' = IF limits_zero(Unwrap(AutoLimits)) THEN "done" ELSE "loop"
    /\ io' = NoIo
    /\ events' = <<>>
    /\ UNCHANGED <<top, child, top0, child0, topW, childW, twice, MigrationProcess,
                   AutoLimits, free, result>>

\* on_initialize that reports the weight of the totals, not of this block's work
OnInitializeEnd_total_weight ==
    /\ pc = "done"
    /\ call.op = "auto"
    /\ events' = Append(events, Migrated(task.dyn_top_items, task.dyn_child_items, "Auto"))
    /\ MigrationProcess' = Encode(task)
    /\ result' = WithWeight(Ok("Yes"),
                            dynamic_weight(saturating_add(task.top_items, task.child_items),
                                           task.size))
    /\ pc' = "ret"
    /\ task' = DefaultTask
    /\ UNCHANGED <<top, child, top0, child0, topW, childW, twice, AutoLimits, free, io, call>>

\* the driver has returned: deposit the event, store the task
OnInitializeEnd ==
    /\ pc = "done"
    /\ call.op = "auto"
    /\ events' = Append(events, Migrated(task.dyn_top_items, task.dyn_child_items, "Auto"))
    /\ MigrationProcess' = Encode(task)
    /\ result' = WithWeight(Ok("Yes"), dynamic_weight(dyn_total_items(task), task.dyn_size))
    /\ pc' = "ret"
    /\ task' = DefaultTask
    /\ UNCHANGED <<top, child, top0, child0, topW, childW, twice, AutoLimits, free, io, call>>

---------------------------------------------------------------------------
(* Pallet::control_auto_migration *)

\* the limits ControlOrigin may set
AutoLimitChoices ==
    {MigrationLimits(1, U32_MAX), MigrationLimits(2, U32_MAX),
     MigrationLimits(U32_MAX, 2), MigrationLimits(U32_MAX, U32_MAX),
     MigrationLimits(0, U32_MAX)}

\* control_auto_migration without the check of the origin
control_auto_migration_any_origin(origins, configs) ==
    /\ pc = "idle"
    /\ \E origin \in origins, maybe_config \in configs :
          /\ AutoLimits' = maybe_config
          /\ result' = Ok("Yes")
          /\ call' = [NoCall EXCEPT !.op = "control_auto_migration",
                                    !.origin = origin, !.maybe_config = maybe_config]
    /\ io' = NoIo
    /\ events' = <<>>
    /\ pc' = "ret"
    /\ UNCHANGED <<top, child, top0, child0, topW, childW, twice, MigrationProcess,
                   free, task>>

control_auto_migration(origins, configs) ==
    /\ pc = "idle"
    /\ \E origin \in origins, maybe_config \in configs :
          /\ AutoLimits' = IF origin = "Root" THEN maybe_config ELSE AutoLimits
          /\ result' = IF origin = "Root" THEN Ok("Yes") ELSE Err("BadOrigin")
          /\ call' = [NoCall EXCEPT !.op = "control_auto_migration",
                                    !.origin = origin, !.maybe_config = maybe_config]
    /\ io' = NoIo
    /\ events' = <<>>
    /\ pc' = "ret"
    /\ UNCHANGED <<top, child, top0, child0, topW, childW, twice, MigrationProcess,
                   free, task>>

ControlAutoMigration ==
    control_auto_migration({"Root", "Signed"},
                           {None} \cup {Some(l) : l \in AutoLimitChoices})

\* the set-up of test::detects_first_child_key: AutoLimits = (item 1, size large)
ControlAutoSingleItem ==
    control_auto_migration({"Root"}, {Some(MigrationLimits(1, U32_MAX))})

---------------------------------------------------------------------------
(* Pallet::continue_migrate *)

SignedLimitChoices ==
    {MigrationLimits(0, 0), MigrationLimits(2, 0), MigrationLimits(2, SignedMaxSize),
     MigrationLimits(SignedMaxItem + 1, SignedMaxSize),
     MigrationLimits(SignedMaxItem, SignedMaxSize + 1)}

\* the sizes a caller may declare
SizeChoices == {0, 1, SignedMaxSize}

\* the witnesses a caller may send: the current task, the genesis task, the bad
\* witness of the tests, the current task with a dynamic counter set
WitnessChoices ==
    {migration_process, DefaultTask,
     [DefaultTask EXCEPT !.current_top = Some(<<1>>)],
     [migration_process EXCEPT !.dyn_size = 1]}

\* the deposit of continue_migrate: no base
continue_deposit(limits) == SignedDepositPerItem * limits.item

\* the funds check before the limit check
ContinuePrecheck_funds_first(who, limits, witness_task) ==
    IF ~can_slash(free, who, continue_deposit(limits))
    THEN "not enough funds"
    ELSE IF ~(limits.size <= SignedMaxSize /\ limits.item <= SignedMaxItem)
    THEN "max signed limits not respected"
    ELSE IF migration_process # witness_task
    THEN "wrong witness"
    ELSE "Ok"

\* the checks without the comparison of the witness
ContinuePrecheck_no_witness(who, limits, witness_task) ==
    IF ~(limits.size <= SignedMaxSize /\ limits.item <= SignedMaxItem)
    THEN "max signed limits not respected"
    ELSE IF ~can_slash(free, who, continue_deposit(limits))
    THEN "not enough funds"
    ELSE "Ok"

\* the checks before the driver runs: the error they end with, or "Ok"
ContinuePrecheck(who, limits, witness_task) ==
    IF ~(limits.size <= SignedMaxSize /\ limits.item <= SignedMaxItem)
    THEN "max signed limits not respected"
    ELSE IF ~can_slash(free, who, continue_deposit(limits))
    THEN "not enough funds"
    ELSE IF migration_process # witness_task
    THEN "wrong witness"
    ELSE "Ok"

ContinueMigrateReject ==
    /\ pc = "idle"
    /\ \E who \in Accounts, limits \in SignedLimitChoices,
          real_size_upper \in SizeChoices, witness_task \in WitnessChoices :
          /\ ContinuePrecheck(who, limits, witness_task) # "Ok"
          /\ result' = IF ContinuePrecheck(who, limits, witness_task) = "wrong witness"
                        THEN WithWeight(Err("wrong witness"),
                                        WeightInfo("continue_migrate_wrong_witness"))
                        ELSE Err(ContinuePrecheck(who, limits, witness_task))
          \* real_size_upper is not read on this path
          /\ call' = [NoCall EXCEPT !.op = "continue_migrate", !.who = who,
                                    !.limits = limits, !.witness_task = witness_task]
    /\ io' = NoIo
    /\ events' = <<>>
    /\ pc' = "ret"
    /\ UNCHANGED <<top, child, top0, child0, topW, childW, twice, MigrationProcess,
                   AutoLimits, free, task>>

ContinueMigrateBegin ==
    /\ pc = "idle"
    /\ \E who \in Accounts, limits \in SignedLimitChoices,
          real_size_upper \in SizeChoices, witness_task \in WitnessChoices :
          /\ ContinuePrecheck(who, limits, witness_task) = "Ok"
          /\ call' = [NoCall EXCEPT !.op = "signed", !.who = who, !.limits = limits,
                                    !.real_size_upper = real_size_upper,
                                    !.deposit = continue_deposit(limits),
                                    !.witness_task = witness_task]
          /\ pc' = IF limits_zero(limits) THEN "done" ELSE "loop"
    /\ task' = migration_process
    /\ io' = NoIo
    /\ events' = <<>>
    /\ UNCHANGED <<top, child, top0, child0, topW, childW, twice, MigrationProcess,
                   AutoLimits, free, result>>

\* the end of continue_migrate that stores the task on the error path too
ContinueMigrateEnd_store_anyway ==
    /\ pc = "done"
    /\ call.op = "signed"
    /\ IF call.real_size_upper < task.dyn_size
       THEN /\ free' = slash(free, call.who, call.deposit)
            /\ result' = Err("wrong witness data")
            /\ MigrationProcess' = Encode(task)
            /\ UNCHANGED events
       ELSE /\ events' = Append(events,
                                Migrated(task.dyn_top_items, task.dyn_child_items, "Signed"))
            /\ MigrationProcess' = Encode(task)
            /\ result' = WithWeight(Ok("No"),
                                    [dynamic_weight(call.limits.item, task.dyn_size)
                                       EXCEPT !.info = "continue_migrate"])
            /\ UNCHANGED free
    /\ pc' = "ret"
    /\ task' = DefaultTask
    /\ UNCHANGED <<top, child, top0, child0, topW, childW, twice, AutoLimits, io, call>>

\* the end of continue_migrate that slashes an exact declaration too
ContinueMigrateEnd_strict ==
    /\ pc = "done"
    /\ call.op = "signed"
    /\ IF call.real_size_upper <= task.dyn_size
       THEN /\ free' = slash(free, call.who, call.deposit)
            /\ result' = Err("wrong witness data")
            /\ UNCHANGED <<events, MigrationProcess>>
       ELSE /\ events' = Append(events,
                                Migrated(task.dyn_top_items, task.dyn_child_items, "Signed"))
            /\ MigrationProcess' = Encode(task)
            /\ result' = WithWeight(Ok("No"),
                                    [dynamic_weight(call.limits.item, task.dyn_size)
                                       EXCEPT !.info = "continue_migrate"])
            /\ UNCHANGED free
    /\ pc' = "ret"
    /\ task' = DefaultTask
    /\ UNCHANGED <<top, child, top0, child0, topW, childW, twice, AutoLimits, io, call>>

\* the end of continue_migrate that deposits Slashed when it slashes
ContinueMigrateEnd_slashed_event ==
    /\ pc = "done"
    /\ call.op = "signed"
    /\ IF call.real_size_upper < task.dyn_size
       THEN /\ free' = slash(free, call.who, call.deposit)
            /\ events' = Append(events, Slashed(call.who, call.deposit))
            /\ result' = Err("wrong witness data")
            /\ UNCHANGED MigrationProcess
       ELSE /\ events' = Append(events,
                                Migrated(task.dyn_top_items, task.dyn_child_items, "Signed"))
            /\ MigrationProcess' = Encode(task)
            /\ result' = WithWeight(Ok("No"),
                                    [dynamic_weight(call.limits.item, task.dyn_size)
                                       EXCEPT !.info = "continue_migrate"])
            /\ UNCHANGED free
    /\ pc' = "ret"
    /\ task' = DefaultTask
    /\ UNCHANGED <<top, child, top0, child0, topW, childW, twice, AutoLimits, io, call>>

\* the driver has returned: slash, or deposit the event and store the task
ContinueMigrateEnd ==
    /\ pc = "done"
    /\ call.op = "signed"
    /\ IF call.real_size_upper < task.dyn_size
       THEN /\ free' = slash(free, call.who, call.deposit)
            /\ result' = Err("wrong witness data")
            /\ UNCHANGED <<events, MigrationProcess>>
       ELSE /\ events' = Append(events,
                                Migrated(task.dyn_top_items, task.dyn_child_items, "Signed"))
            /\ MigrationProcess' = Encode(task)
            /\ result' = WithWeight(Ok("No"),
                                    [dynamic_weight(call.limits.item, task.dyn_size)
                                       EXCEPT !.info = "continue_migrate"])
            /\ UNCHANGED free
    /\ pc' = "ret"
    /\ task' = DefaultTask
    /\ UNCHANGED <<top, child, top0, child0, topW, childW, twice, AutoLimits, io, call>>

---------------------------------------------------------------------------
(* Pallet::migrate_custom_top *)

\* the deposit of the custom operations without SignedDepositBase
custom_deposit_no_base(keys) == SignedDepositPerItem * Len(keys)

\* the deposit of migrate_custom_top and migrate_custom_child
custom_deposit(keys) == SignedDepositBase + SignedDepositPerItem * Len(keys)

\* the loop over `keys` that does not add up the bytes read
RECURSIVE custom_top_loop_no_size(_, _)
custom_top_loop_no_size(m, keys) ==
    IF keys = <<>> THEN m
    ELSE LET key == Head(keys)
             data == storage_get(m.top, key)
             m1 == IF IsSome(data)
                   THEN [m EXCEPT !.top = storage_set(@, key, Unwrap(data)),
                                  !.topW = MarkTop(@, key),
                                  !.twice = @ \/ WrittenTop(m.topW, key),
                                  !.io = IoWrite(IoRead(@, data))]
                   ELSE [m EXCEPT !.io = IoRead(@, data)]
         IN  custom_top_loop_no_size(m1, Tail(keys))

\* the loop over `keys` that sets an empty value where it found none
RECURSIVE custom_top_loop_create(_, _)
custom_top_loop_create(m, keys) ==
    IF keys = <<>> THEN m
    ELSE LET key == Head(keys)
             data == storage_get(m.top, key)
             len == IF IsSome(data) THEN Unwrap(data) ELSE 0
             m1 == [m EXCEPT !.dyn_size = saturating_add(@, len),
                             !.top = storage_set(@, key, len),
                             !.topW = MarkTop(@, key),
                             !.twice = @ \/ WrittenTop(m.topW, key),
                             !.io = IoWrite(IoRead(@, data))]
         IN  custom_top_loop_create(m1, Tail(keys))

\* the loop over `keys`, on a machine [top, topW, twice, io, dyn_size]
RECURSIVE custom_top_loop(_, _)
custom_top_loop(m, keys) ==
    IF keys = <<>> THEN m
    ELSE LET key == Head(keys)
             data == storage_get(m.top, key)
             m1 == IF IsSome(data)
                   THEN [m EXCEPT !.dyn_size = saturating_add(@, Unwrap(data)),
                                  !.top = storage_set(@, key, Unwrap(data)),
                                  !.topW = MarkTop(@, key),
                                  !.twice = @ \/ WrittenTop(m.topW, key),
                                  !.io = IoWrite(IoRead(@, data))]
                   ELSE [m EXCEPT !.io = IoRead(@, data)]
         IN  custom_top_loop(m1, Tail(keys))

CustomTopKeys == {<<>>, <<KeyA>>, <<KeyA, KeyZ>>}

MigrateCustomTop ==
    /\ pc = "idle"
    /\ \E who \in Accounts, keys \in CustomTopKeys, witness_size \in SizeChoices :
          LET deposit == custom_deposit(keys)
              m == custom_top_loop([top |-> top, topW |-> topW, twice |-> twice,
                                    io |-> NoIo, dyn_size |-> 0], keys)
          IN  /\ call' = [NoCall EXCEPT !.op = "migrate_custom_top", !.who = who,
                                        !.keys = keys, !.real_size_upper = witness_size,
                                        !.deposit = deposit]
              /\ IF ~can_slash(free, who, deposit)
                 THEN /\ result' = Err("not enough funds")
                      /\ io' = NoIo
                      /\ events' = <<>>
                      /\ UNCHANGED <<top, topW, twice, free>>
                 ELSE /\ top' = m.top
                      /\ topW' = m.topW
                      /\ twice' = m.twice
                      /\ io' = m.io
                      /\ IF m.dyn_size > witness_size
                         THEN /\ free' = slash(free, who, deposit)
                              /\ events' = <<>>
                              /\ result' = Err("wrong witness data")
                         ELSE /\ free' = free
                              /\ events' = <<Migrated(Len(keys), 0, "Signed")>>
                              /\ result' = Ok("Yes")
    /\ pc' = "ret"
    /\ UNCHANGED <<child, top0, child0, childW, MigrationProcess, AutoLimits, task>>

---------------------------------------------------------------------------
(* Pallet::migrate_custom_child *)

\* the loop over `child_keys` that does not add up the bytes read
RECURSIVE custom_child_loop_no_size(_, _, _)
custom_child_loop_no_size(m, top_key, child_keys) ==
    IF child_keys = <<>> THEN m
    ELSE IF child_io_key(top_key) = None THEN [m EXCEPT !.bad = TRUE]
    ELSE LET child_key == Head(child_keys)
             id == Unwrap(child_io_key(top_key))
             data == child_get(m.child, id, child_key)
             m1 == IF IsSome(data)
                   THEN [m EXCEPT !.child = child_set(@, id, child_key, Unwrap(data)),
                                  !.childW = MarkChild(@, id, child_key),
                                  !.twice = @ \/ WrittenChild(m.childW, id, child_key),
                                  !.io = IoWrite(IoRead(@, data))]
                   ELSE [m EXCEPT !.io = IoRead(@, data)]
         IN  custom_child_loop_no_size(m1, top_key, Tail(child_keys))

\* the loop over `child_keys`, on a machine [child, childW, twice, io, dyn_size, bad];
\* a top_key that is no child root ends it at the first key
RECURSIVE custom_child_loop(_, _, _)
custom_child_loop(m, top_key, child_keys) ==
    IF child_keys = <<>> THEN m
    ELSE IF child_io_key(top_key) = None THEN [m EXCEPT !.bad = TRUE]
    ELSE LET child_key == Head(child_keys)
             id == Unwrap(child_io_key(top_key))
             data == child_get(m.child, id, child_key)
             m1 == IF IsSome(data)
                   THEN [m EXCEPT !.dyn_size = saturating_add(@, Unwrap(data)),
                                  !.child = child_set(@, id, child_key, Unwrap(data)),
                                  !.childW = MarkChild(@, id, child_key),
                                  !.twice = @ \/ WrittenChild(m.childW, id, child_key),
                                  !.io = IoWrite(IoRead(@, data))]
                   ELSE [m EXCEPT !.io = IoRead(@, data)]
         IN  custom_child_loop(m1, top_key, Tail(child_keys))

CustomChildRoots == {Root0, KeyA}
CustomChildKeys == {<<>>, << <<1>> >>, << <<0>>, <<1>> >>}
TotalSizeChoices == {0, 1, MaxValueLen, MaxValueLen + 1}

MigrateCustomChild ==
    /\ pc = "idle"
    /\ \E who \in Accounts, top_key \in CustomChildRoots,
          child_keys \in CustomChildKeys, total_size \in TotalSizeChoices :
          LET deposit == custom_deposit(child_keys)
              m == custom_child_loop([child |-> child, childW |-> childW, twice |-> twice,
                                      io |-> NoIo, dyn_size |-> 0, bad |-> FALSE],
                                     top_key, child_keys)
          IN  /\ call' = [NoCall EXCEPT !.op = "migrate_custom_child", !.who = who,
                                        !.top_key = top_key, !.keys = child_keys,
                                        !.real_size_upper = total_size,
                                        !.deposit = deposit]
              /\ IF ~can_slash(free, who, deposit)
                 THEN /\ result' = Err("not enough funds")
                      /\ io' = NoIo
                      /\ events' = <<>>
                      /\ UNCHANGED <<child, childW, twice, free>>
                 ELSE /\ child' = m.child
                      /\ childW' = m.childW
                      /\ twice' = m.twice
                      /\ io' = m.io
                      /\ IF m.bad
                         THEN /\ free' = free
                              /\ events' = <<>>
                              /\ result' = Err("bad child key")
                         ELSE IF m.dyn_size # total_size
                         THEN /\ free' = slash(free, who, deposit)
                              /\ events' = <<Slashed(who, deposit)>>
                              /\ result' = WithWeight(Err("bad witness"),
                                                      WeightInfo("migrate_custom_top_fail"))
                         ELSE /\ free' = free
                              /\ events' = <<Migrated(0, Len(child_keys), "Signed")>>
                              /\ result' = WithWeight(Ok("Yes"),
                                                      WeightInfo("migrate_custom_top_success"))
    /\ pc' = "ret"
    /\ UNCHANGED <<top, top0, child0, topW, MigrationProcess, AutoLimits, task>>

---------------------------------------------------------------------------
(* The handler has returned: its result and events are taken, the next call *)
(* or block may start.                                                      *)

Return ==
    /\ pc = "ret"
    /\ pc' = "idle"
    /\ result' = NoResult
    /\ events' = <<>>
    /\ io' = NoIo
    /\ call' = NoCall
    /\ UNCHANGED <<top, child, top0, child0, topW, childW, twice, MigrationProcess,
                   AutoLimits, free, task>>

---------------------------------------------------------------------------

Next ==
    \/ Tick
    \/ OnInitializeIdle
    \/ OnInitializeBegin
    \/ OnInitializeEnd
    \/ ControlAutoMigration
    \/ ContinueMigrateReject
    \/ ContinueMigrateBegin
    \/ ContinueMigrateEnd
    \/ MigrateCustomTop
    \/ MigrateCustomChild
    \/ Return

Spec == Init /\ [][Next]_vars

\* automatic ticks and continue_migrate only: no custom operation
NextMigrate ==
    \/ Tick
    \/ OnInitializeIdle
    \/ OnInitializeBegin
    \/ OnInitializeEnd
    \/ ControlAutoMigration
    \/ ContinueMigrateReject
    \/ ContinueMigrateBegin
    \/ ContinueMigrateEnd
    \/ Return

SpecMigrate == Init /\ [][NextMigrate]_vars

\* automatic ticks under AutoLimits = (item 1, size large) only
NextSingleItem ==
    \/ Tick
    \/ OnInitializeIdle
    \/ OnInitializeBegin
    \/ OnInitializeEnd
    \/ ControlAutoSingleItem
    \/ Return

SpecSingleItem == Init /\ [][NextSingleItem]_vars

---------------------------------------------------------------------------
(* Automatic ticks from any cursor that satisfies the two cursor invariants *)

is_child_root(key) == starts_with(key, DEFAULT_CHILD_STORAGE_KEY_PREFIX)

\* if current_top is absent so is current_child; if current_child is present,
\* current_top is present and a child root
CursorInvariants(t) ==
    /\ t.current_top = None => t.current_child = None
    /\ IsSome(t.current_child) =>
          IsSome(t.current_top) /\ is_child_root(Unwrap(t.current_top))

\* prev_tick_child is set only while current_top is a child root
FlagInvariant(t) ==
    t.prev_tick_child => IsSome(t.current_top) /\ is_child_root(Unwrap(t.current_top))

Cursors ==
    { [DefaultTask EXCEPT !.current_top = ct, !.current_child = cc,
                          !.prev_tick_child = f] :
        ct \in {None} \cup {Some(k) : k \in TopKeys \cup {<<>>}},
        cc \in {None} \cup {Some(k) : k \in ChildKeys},
        f \in BOOLEAN }

InitAnyCursor ==
    /\ \E shape \in StoreShapes :
          /\ top = GenesisTop(shape)
          /\ child = GenesisChild(shape)
    /\ top0 = top
    /\ child0 = child
    /\ topW = [k \in TopKeys |-> FALSE]
    /\ childW = [id \in ChildIds |-> [k \in ChildKeys |-> FALSE]]
    /\ twice = FALSE
    /\ \E t \in Cursors :
          /\ CursorInvariants(t)
          /\ MigrationProcess = Encode(t)
    /\ \E l \in {MigrationLimits(1, U32_MAX), MigrationLimits(U32_MAX, 2)} :
          AutoLimits = Some(l)
    /\ free = [a \in Accounts |-> IF a = 1 THEN InitBalance ELSE 0]
    /\ pc = "idle"
    /\ call = NoCall
    /\ task = DefaultTask
    /\ io = NoIo
    /\ events = <<>>
    /\ result = NoResult

NextAuto ==
    \/ Tick
    \/ OnInitializeBegin
    \/ OnInitializeEnd
    \/ Return

\* a block follows a block, and a running loop keeps running
SpecAnyCursor == InitAnyCursor /\ [][NextAuto]_vars /\ WF_vars(NextAuto)

\* any stored cursor, those that break the invariants of the cursor included
InitStoredCursor ==
    /\ \E shape \in StoreShapes :
          /\ top = GenesisTop(shape)
          /\ child = GenesisChild(shape)
    /\ top0 = top
    /\ child0 = child
    /\ topW = [k \in TopKeys |-> FALSE]
    /\ childW = [id \in ChildIds |-> [k \in ChildKeys |-> FALSE]]
    /\ twice = FALSE
    /\ \E t \in Cursors : MigrationProcess = Encode(t)
    /\ \E l \in {MigrationLimits(1, U32_MAX), MigrationLimits(U32_MAX, 2)} :
          AutoLimits = Some(l)
    /\ free = [a \in Accounts |-> IF a = 1 THEN InitBalance ELSE 0]
    /\ pc = "idle"
    /\ call = NoCall
    /\ task = DefaultTask
    /\ io = NoIo
    /\ events = <<>>
    /\ result = NoResult

\* on_initialize block after block, and control_auto_migration between blocks
NextControlled ==
    \/ Tick
    \/ OnInitializeIdle
    \/ OnInitializeBegin
    \/ OnInitializeEnd
    \/ ControlAutoMigration
    \/ Return

SpecStoredCursor == InitStoredCursor /\ [][NextControlled]_vars

\* a migration that is past a large part of the state: the cursor is on a key
\* of the store and the stored totals are close to the largest u32
NearMax == U32_MAX - 1
InitLargeTotals ==
    /\ \E shape \in StoreShapes :
          /\ top = GenesisTop(shape)
          /\ child = GenesisChild(shape)
    /\ top0 = top
    /\ child0 = child
    /\ topW = [k \in TopKeys |-> FALSE]
    /\ childW = [id \in ChildIds |-> [k \in ChildKeys |-> FALSE]]
    /\ twice = FALSE
    /\ \E k \in TopKeys :
          /\ IsSome(top[k])
          /\ MigrationProcess =
                Encode([DefaultTask EXCEPT !.current_top = Some(k), !.size = NearMax,
                                           !.top_items = NearMax, !.child_items = NearMax])
    /\ AutoLimits = None
    /\ free = [a \in Accounts |-> IF a = 1 THEN InitBalance ELSE 0]
    /\ pc = "idle"
    /\ call = NoCall
    /\ task = DefaultTask
    /\ io = NoIo
    /\ events = <<>>
    /\ result = NoResult

SpecLargeTotals == InitLargeTotals /\ [][Next]_vars

---------------------------------------------------------------------------
(* Properties *)

\* every top entry of genesis has been set() again
AllTopRewritten == \A k \in TopKeys : IsSome(top0[k]) => topW[k]

\* every entry of every child trie of genesis has been set() again
AllChildRewritten ==
    \A id \in ChildIds : \A k \in ChildKeys : IsSome(child0[id][k]) => childW[id][k]

\* no key created, none deleted, no value changed
StoreUnchanged == top = top0 /\ child = child0

\* C1: once the stored cursor is (absent, absent), every top entry and every
\* child entry of the initial store has been rewritten, and every value is
\* the initial one.
C1_GlobalCorrectness ==
    finished(MigrationProcess) =>
        AllTopRewritten /\ AllChildRewritten /\ StoreUnchanged

\* C2: under automatic ticks and continue_migrate calls alone, once the
\* stored cursor is (absent, absent) every key of the initial store has been
\* written exactly once, no key was created or deleted and no value changed.
C2_TouchedExactlyOnce ==
    finished(MigrationProcess) =>
        AllTopRewritten /\ AllChildRewritten /\ ~twice /\ StoreUnchanged

\* C3: under automatic ticks with limits (item 1, size large), once the stored
\* cursor is (absent, absent), every key of a child trie that holds a value at
\* the empty child key has been rewritten, the empty key included.
C3_EmptyChildKeyVisited ==
    finished(MigrationProcess) =>
        \A id \in ChildIds :
            IsSome(child0[id][<<>>]) =>
                \A k \in ChildKeys : IsSome(child0[id][k]) => childW[id][k]

\* C4: from every cursor that satisfies the cursor invariants, with AutoLimits
\* set to positive limits, automatic ticks eventually store the cursor
\* (absent, absent).
C4_TerminatesFromValidCursor == <>finished(MigrationProcess)

\* What does hold: the same, from the cursors that also have prev_tick_child
\* set only while current_top is a child root.
C4_TerminatesFromFlaggedCursor ==
    FlagInvariant(MigrationProcess) => <>finished(MigrationProcess)

\* a run that started past KeyA, inside a child trie, and has finished
C4_Witness ==
    /\ finished(MigrationProcess)
    /\ IsSome(top0[KeyA]) /\ ~topW[KeyA]
    /\ \E id \in ChildIds : \E k \in ChildKeys : childW[id][k]

\* C5: when migrate_until_exhaustion returns, the items of this call are no
\* more than limits.item.
C5_ItemLimitHardBound ==
    pc = "done" =>
        task.dyn_top_items + task.dyn_child_items <= call.limits.item

\* the driver stopped on the item limit, with a top and a child item counted
C5_Witness ==
    /\ pc = "done"
    /\ call.limits.item = 2
    /\ task.dyn_top_items = 1
    /\ task.dyn_child_items = 1

\* C6: when migrate_until_exhaustion returns and limits.size is positive,
\* dyn_size less the length of the last value read is below limits.size, and
\* so is dyn_size less the length of the largest value of the store.
C6_SizeOvershootOneValue ==
    (pc = "done" /\ call.limits.size > 0) =>
        /\ task.dyn_size - io.last_len < call.limits.size
        /\ task.dyn_size - MaxValueLen < call.limits.size

\* the driver stopped past the size limit
C6_Witness ==
    /\ pc = "done"
    /\ call.limits.size > 0
    /\ task.dyn_size > call.limits.size
    /\ io.last_len > 0

\* C7: with limits.item = 0 or limits.size = 0 the driver runs no tick, reads
\* and writes nothing and leaves the task as loaded; continue_migrate with
\* limits (0, 0), real_size_upper 0 and the right witness then succeeds, and
\* the stored cursor stays as it was.
C7_ZeroLimitsNoOp ==
    [][ /\ pc = "loop" => (call.limits.item # 0 /\ call.limits.size # 0)
        /\ (pc = "done" /\ (call.limits.item = 0 \/ call.limits.size = 0)) =>
              /\ io = NoIo
              /\ task = Decode(MigrationProcess)
              /\ (call.op = "signed" /\ call.real_size_upper = 0) =>
                    /\ result'.ret = "Ok"
                    /\ MigrationProcess' = MigrationProcess
                    /\ free' = free
      ]_vars

\* continue_migrate with limits (0, 0) and real_size_upper 0 has run the
\* driver on a cursor in the middle of the migration
C7_Witness ==
    /\ pc = "done"
    /\ call.op = "signed"
    /\ call.limits = MigrationLimits(0, 0)
    /\ call.real_size_upper = 0
    /\ MigrationProcess.top_items > 0
    /\ IsSome(MigrationProcess.current_top)

\* C8: under every interleaving of the operations, the stored cursor and the
\* cursor in the driver keep both: current_top absent implies current_child
\* absent; current_child present implies current_top present and a child root.
C8_CursorWellFormed ==
    CursorInvariants(MigrationProcess) /\ CursorInvariants(task)

\* a cursor inside a child trie has been stored
C8_Witness ==
    /\ pc = "idle"
    /\ IsSome(MigrationProcess.current_child)
    /\ IsSome(MigrationProcess.current_top)

\* an absent key counts as +infinity
KeyLess(a, b) == IsSome(a) /\ (b = None \/ LexLess(Unwrap(a), Unwrap(b)))

\* the pair (current_top, current_child), an absent entry as +infinity
PairLess(t, u) ==
    \/ KeyLess(t.current_top, u.current_top)
    \/ t.current_top = u.current_top /\ KeyLess(t.current_child, u.current_child)

\* where the cursor is within its current_top: before the descent, at a child
\* key, or after the descent
Phase(t) == IF IsSome(t.current_child) THEN 1 ELSE IF t.prev_tick_child THEN 2 ELSE 0
PhaseLess(t, u) ==
    \/ Phase(t) < Phase(u)
    \/ Phase(t) = 1 /\ Phase(u) = 1
         /\ LexLess(Unwrap(t.current_child), Unwrap(u.current_child))

\* the pair, an absent current_child as -infinity before the descent and as
\* +infinity after it
CursorLess(t, u) ==
    \/ KeyLess(t.current_top, u.current_top)
    \/ t.current_top = u.current_top /\ PhaseLess(t, u)

\* the tick changed neither the cursor nor the counters of the call
TickNoOp ==
    /\ task'.current_top = task.current_top
    /\ task'.current_child = task.current_child
    /\ task'.prev_tick_child = task.prev_tick_child
    /\ task'.dyn_top_items = task.dyn_top_items
    /\ task'.dyn_child_items = task.dyn_child_items
    /\ task'.dyn_size = task.dyn_size

\* C9 as stated: every tick is a no-op or takes (current_top, current_child)
\* to a strictly greater pair, an absent entry counting as +infinity.
C9_MonotoneAbsentLast ==
    [][pc = "loop" => (TickNoOp \/ PairLess(task, task'))]_vars

\* C9, amended: every tick is a no-op or takes the cursor to a strictly greater
\* one, an absent current_top counting as +infinity and an absent current_child
\* as -infinity while prev_tick_child is false, +infinity once it is true.
C9_MonotoneByPhase ==
    [][pc = "loop" => (TickNoOp \/ CursorLess(task, task'))]_vars

\* the first tick of a call was the descend tick and found a child key
C9_Witness ==
    /\ pc \in {"loop", "done"}
    /\ io.ticks = 1
    /\ IsSome(task.current_child)
    /\ MigrationProcess.current_child = None
    /\ ~MigrationProcess.prev_tick_child

\* the next tick is the descend tick or a migrate_child tick
InDescent(t) ==
    /\ IsSome(t.current_top)
    /\ is_child_root(Unwrap(t.current_top))
    /\ (IsSome(t.current_child) \/ ~t.prev_tick_child)

SameCursor(t, u) ==
    /\ t.current_top = u.current_top
    /\ t.current_child = u.current_child
    /\ t.prev_tick_child = u.prev_tick_child

\* C10: from the descend tick up to, not including, the ascend tick
\* current_top keeps its value: the descend tick and every migrate_child tick
\* leave it alone, the cursor is stored as the driver left it, loaded as it
\* was stored, and only the end of a driver call stores one.
C10_DescentKeepsTop ==
    [][ /\ (pc = "loop" /\ InDescent(task)) => task'.current_top = task.current_top
        /\ (pc = "idle" /\ pc' \in {"loop", "done"}) => SameCursor(task', MigrationProcess)
        /\ (pc = "done" /\ MigrationProcess' # MigrationProcess) =>
              SameCursor(MigrationProcess', task)
        /\ pc # "done" => MigrationProcess' = MigrationProcess
      ]_vars

\* a call loaded a cursor inside a child trie, ticked, and is still at that root
C10_Witness ==
    /\ pc = "done"
    /\ io.ticks >= 1
    /\ IsSome(MigrationProcess.current_child)
    /\ task.prev_tick_child
    /\ task.current_top = MigrationProcess.current_top

---------------------------------------------------------------------------
(* Properties of continue_migrate *)

WithinSignedMax(limits) ==
    limits.size <= SignedMaxSize /\ limits.item <= SignedMaxItem

\* `who` can be slashed for `amount`
CanCover(who, amount) == amount = 0 \/ free[who] >= amount

\* this step is a call of continue_migrate, up to its return or to the driver
ContinueMigrateCalled ==
    pc = "idle" /\ call'.op \in {"continue_migrate", "signed"}

\* the call passes the limit check and the funds check
PassesLimitsAndFunds ==
    /\ WithinSignedMax(call'.limits)
    /\ CanCover(call'.who, SignedDepositPerItem * call'.limits.item)

\* the step changed no storage, no balance, and deposited no event
NothingTouched ==
    /\ MigrationProcess' = MigrationProcess
    /\ AutoLimits' = AutoLimits
    /\ top' = top /\ child' = child
    /\ topW' = topW /\ childW' = childW
    /\ free' = free
    /\ events' = <<>>
    /\ io' = NoIo

\* C11: continue_migrate with limits within the signed maximum, a caller who
\* can cover the deposit and a witness whose persisted fields differ from the
\* stored cursor returns "wrong witness" and leaves the stored cursor and
\* totals, the store, AutoLimits and the balances as they were, with no event.
C11_WitnessRejectionPure ==
    [][ (/\ ContinueMigrateCalled
         /\ PassesLimitsAndFunds
         /\ Encode(call'.witness_task) # MigrationProcess) =>
            /\ pc' = "ret"
            /\ result'.ret = "wrong witness"
            /\ NothingTouched
      ]_vars

\* a call with a stale witness, by a caller with funds, has been rejected
C11_Witness ==
    /\ pc = "ret"
    /\ call.op = "continue_migrate"
    /\ result.ret = "wrong witness"
    /\ Encode(call.witness_task) # MigrationProcess
    /\ call.limits.item > 0
    /\ free[call.who] >= call.limits.item

\* C12: a witness whose persisted fields equal the stored cursor passes the
\* witness check whatever its dyn_top_items, dyn_child_items and dyn_size are:
\* the call goes on to the driver.
C12_WitnessPersistedFieldsOnly ==
    [][ (/\ ContinueMigrateCalled
         /\ PassesLimitsAndFunds
         /\ Encode(call'.witness_task) = MigrationProcess) =>
            /\ call'.op = "signed"
            /\ pc' \in {"loop", "done"}
      ]_vars

\* C13: once an earlier operation has moved the stored cursor away from the
\* cursor a call carries as its witness (here the cursor of genesis), a later
\* continue_migrate carrying that witness, its limits and funds in order,
\* fails with "wrong witness", is not slashed, writes nothing and leaves the
\* cursor as the earlier operation left it.
C13_StaleWitnessFailsCleanly ==
    [][ (/\ ContinueMigrateCalled
         /\ PassesLimitsAndFunds
         /\ call'.witness_task = DefaultTask
         /\ MigrationProcess # Encode(DefaultTask)) =>
            /\ result'.ret = "wrong witness"
            /\ free' = free
            /\ top' = top /\ child' = child
            /\ topW' = topW /\ childW' = childW /\ twice' = twice
            /\ MigrationProcess' = MigrationProcess
      ]_vars

\* the second of two calls carrying the cursor of genesis: the cursor has
\* moved, the caller keeps the whole balance
C13_Witness ==
    /\ pc = "ret"
    /\ call.op = "continue_migrate"
    /\ call.witness_task = DefaultTask
    /\ call.who = 1
    /\ call.limits.item > 0
    /\ result.ret = "wrong witness"
    /\ MigrationProcess.top_items > 0
    /\ free[1] = InitBalance

\* the driver has returned to continue_migrate
ContinueMigrateReturns == pc = "done" /\ call.op = "signed"

\* only `who` loses, and exactly `amount`
LosesExactly(who, amount) == free' = [free EXCEPT ![who] = @ - amount]

\* C14: when the driver has read more bytes than continue_migrate was told
\* (real_size_upper < dyn_size), the caller loses exactly
\* SignedDepositPerItem x limits.item, the call returns "wrong witness data",
\* no Migrated event is deposited, and the stored cursor and totals stay those
\* of before the call.
C14_UnderDeclaredSizeSlashed ==
    [][ (ContinueMigrateReturns /\ call.real_size_upper < task.dyn_size) =>
            /\ LosesExactly(call.who, SignedDepositPerItem * call.limits.item)
            /\ result'.ret = "wrong witness data"
            /\ events' = <<>>
            /\ MigrationProcess' = MigrationProcess
            /\ Decode(MigrationProcess) = call.witness_task
      ]_vars

\* a caller has been slashed by continue_migrate
C14_Witness ==
    /\ pc = "ret"
    /\ call.op = "signed"
    /\ result.ret = "wrong witness data"
    /\ call.limits.item = 2
    /\ free[call.who] = InitBalance - 2 * SignedDepositPerItem
    /\ events = <<>>

\* C15: a continue_migrate that passes its checks with a witness equal to the
\* stored cursor runs the driver on that cursor; when real_size_upper >=
\* dyn_size it stores the task the driver produced, deposits exactly one
\* Migrated{dyn_top_items, dyn_child_items, Signed}, returns Ok with Pays::No,
\* and changes no balance.
C15_ContinueSuccess ==
    [][ /\ (/\ ContinueMigrateCalled
            /\ PassesLimitsAndFunds
            /\ call'.witness_task = Decode(MigrationProcess)) =>
               /\ call'.op = "signed"
               /\ task' = Decode(MigrationProcess)
        /\ (ContinueMigrateReturns /\ call.real_size_upper >= task.dyn_size) =>
               /\ MigrationProcess' = Encode(task)
               /\ events' = <<Migrated(task.dyn_top_items, task.dyn_child_items, "Signed")>>
               /\ result'.ret = "Ok"
               /\ result'.pays = "No"
               /\ free' = free
      ]_vars

\* a call that migrated a top and a child item has succeeded and moved the cursor
C15_Witness ==
    /\ pc = "ret"
    /\ call.op = "signed"
    /\ result.ret = "Ok"
    /\ result.pays = "No"
    /\ events = <<Migrated(1, 1, "Signed")>>
    /\ MigrationProcess # Encode(call.witness_task)
    /\ free[call.who] = InitBalance

\* C16: continue_migrate with limits above SignedMigrationMaxLimits returns
\* "max signed limits not respected" whatever the funds and the witness are;
\* with limits in order and a caller who cannot be slashed for the deposit it
\* returns "not enough funds" whatever the witness is; with both in order it
\* returns neither.  Both errors leave the cursor, the store, AutoLimits and
\* the balances unchanged and deposit no event.
C16_PreconditionOrder ==
    [][ ContinueMigrateCalled =>
          /\ ~WithinSignedMax(call'.limits) =>
                /\ result'.ret = "max signed limits not respected"
                /\ NothingTouched
          /\ (/\ WithinSignedMax(call'.limits)
              /\ ~CanCover(call'.who, SignedDepositPerItem * call'.limits.item)) =>
                /\ result'.ret = "not enough funds"
                /\ NothingTouched
          /\ PassesLimitsAndFunds =>
                result'.ret \notin {"max signed limits not respected", "not enough funds"}
      ]_vars

\* a call with too large limits, no funds and a wrong witness has been
\* rejected for its limits
C16_Witness ==
    /\ pc = "ret"
    /\ call.op = "continue_migrate"
    /\ result.ret = "max signed limits not respected"
    /\ free[call.who] < SignedDepositPerItem * call.limits.item
    /\ Encode(call.witness_task) # MigrationProcess

\* the call that ends in this step: continue_migrate after the driver, or one
\* that runs in one step
EndingCall == IF pc = "done" THEN call ELSE call'

\* the deposit the operation computes before its work
DepositOf(c) ==
    IF c.op \in {"signed", "continue_migrate"}
    THEN SignedDepositPerItem * c.limits.item
    ELSE SignedDepositBase + SignedDepositPerItem * Len(c.keys)

\* C17: over continue_migrate, migrate_custom_top and migrate_custom_child, a
\* balance changes if and only if the call ends on a wrong size declaration
\* ("wrong witness data", "bad witness"), and then the caller loses exactly the
\* deposit computed before the work; every other step leaves all balances alone.
C17_DepositAccounting ==
    [][ IF pc' = "ret" /\ result'.ret \in {"wrong witness data", "bad witness"}
        THEN /\ EndingCall.op \in {"signed", "migrate_custom_top", "migrate_custom_child"}
             /\ DepositOf(EndingCall) > 0
             /\ LosesExactly(EndingCall.who, DepositOf(EndingCall))
        ELSE free' = free
      ]_vars

\* the account has been slashed by a custom operation with no key and then by
\* continue_migrate
C17_Witness ==
    /\ pc = "ret"
    /\ call.op = "signed"
    /\ result.ret = "wrong witness data"
    /\ call.limits.item = 2
    /\ free[call.who] = InitBalance - SignedDepositBase - 2 * SignedDepositPerItem

---------------------------------------------------------------------------
(* Properties of the custom operations *)

\* the bytes of the values the top trie `t` holds under `keys`
RECURSIVE TopBytes(_, _)
TopBytes(t, keys) ==
    IF keys = <<>> THEN 0
    ELSE (IF IsSome(t[Head(keys)]) THEN Unwrap(t[Head(keys)]) ELSE 0)
         + TopBytes(t, Tail(keys))

\* the bytes of the values the child trie `c` holds under `keys`
RECURSIVE ChildBytes(_, _)
ChildBytes(c, keys) ==
    IF keys = <<>> THEN 0
    ELSE (IF IsSome(c[Head(keys)]) THEN Unwrap(c[Head(keys)]) ELSE 0)
         + ChildBytes(c, Tail(keys))

\* the elements of a list
Range(keys) == {keys[n] : n \in 1..Len(keys)}

CustomDeposit(keys) == SignedDepositBase + SignedDepositPerItem * Len(keys)

\* this step is a whole call of the operation, by a caller who can cover its deposit
CustomTopCalled ==
    /\ pc = "idle"
    /\ call'.op = "migrate_custom_top"
    /\ CanCover(call'.who, CustomDeposit(call'.keys))
CustomChildCalled ==
    /\ pc = "idle"
    /\ call'.op = "migrate_custom_child"
    /\ CanCover(call'.who, CustomDeposit(call'.keys))

C19_CustomChildExactSize ==
    [][ (CustomChildCalled /\ is_child_root(call'.top_key)) =>
          IF ChildBytes(child[Unwrap(child_io_key(call'.top_key))], call'.keys)
                = call'.real_size_upper
          THEN /\ result'.ret = "Ok"
               /\ events' = <<Migrated(0, Len(call'.keys), "Signed")>>
               /\ free' = free
          ELSE /\ result'.ret # "Ok"
               /\ LosesExactly(call'.who, CustomDeposit(call'.keys))
      ]_vars

\* migrate_custom_child has been slashed for declaring more bytes than it read
C19_Witness ==
    /\ pc = "ret"
    /\ call.op = "migrate_custom_child"
    /\ is_child_root(call.top_key)
    /\ Len(call.keys) = 2
    /\ result.ret = "bad witness"
    /\ 0 < ChildBytes(child[Unwrap(child_io_key(call.top_key))], call.keys)
    /\ ChildBytes(child[Unwrap(child_io_key(call.top_key))], call.keys)
          < call.real_size_upper

\* C20: migrate_custom_top and migrate_custom_child, on success and on failure,
\* leave MigrationProcess and AutoLimits alone; they set only listed keys that
\* hold a value, to the value read, and create no key.
C20_CustomOutsideCursor ==
    [][ (pc = "idle" /\ call'.op \in {"migrate_custom_top", "migrate_custom_child"}) =>
          /\ MigrationProcess' = MigrationProcess
          /\ AutoLimits' = AutoLimits
          /\ top' = top
          /\ child' = child
          /\ \A k \in TopKeys :
                topW'[k] # topW[k] =>
                   /\ call'.op = "migrate_custom_top"
                   /\ k \in Range(call'.keys)
                   /\ IsSome(top[k])
          /\ \A id \in ChildIds : \A k \in ChildKeys :
                childW'[id][k] # childW[id][k] =>
                   /\ call'.op = "migrate_custom_child"
                   /\ child_io_key(call'.top_key) = Some(id)
                   /\ k \in Range(call'.keys)
                   /\ IsSome(child[id][k])
      ]_vars

\* a custom operation has set a key in the middle of the migration
C20_Witness ==
    /\ pc = "ret"
    /\ call.op = "migrate_custom_top"
    /\ call.keys = <<KeyA, KeyZ>>
    /\ topW[KeyA] /\ topW[KeyZ]
    /\ IsSome(MigrationProcess.current_child)
    /\ IsSome(AutoLimits)

---------------------------------------------------------------------------
(* Properties of migrate_custom_child on a top_key that is no child root *)

\* C21: migrate_custom_child, called by an account that covers the deposit with
\* a top_key that is no child root, returns "bad child key" for every list of
\* child keys, the empty list included, and every total_size, and has written
\* no child entry.
C21_BadChildKeyEarly ==
    [][ (CustomChildCalled /\ ~is_child_root(call'.top_key)) =>
          /\ result'.ret = "bad child key"
          /\ childW' = childW
          /\ child' = child
      ]_vars

\* C22: when migrate_custom_child returns "bad child key", its caller loses
\* exactly SignedDepositBase + SignedDepositPerItem x number of child keys.
C22_BadChildKeySlashed ==
    [][ (CustomChildCalled /\ result'.ret = "bad child key") =>
          LosesExactly(call'.who, CustomDeposit(call'.keys))
      ]_vars

\* the events of the given name in a list of events
EventsNamed(evs, name) == {n \in 1..Len(evs) : evs[n].name = name}

\* C23: a handler that returns has deposited Slashed if and only if it is
\* migrate_custom_child and a balance has changed, and then it has deposited
\* exactly Slashed{who: the caller, amount: the deposit} and the caller has lost
\* the deposit; continue_migrate and migrate_custom_top slash with no event at
\* all; no handler deposits both Slashed and Migrated.
C23_SlashedOnlyByCustomChild ==
    [][ (pc' = "ret") =>
          /\ (EventsNamed(events', "Slashed") # {}) <=>
                (EndingCall.op = "migrate_custom_child" /\ free' # free)
          /\ (EventsNamed(events', "Slashed") # {}) =>
                /\ events' = <<Slashed(EndingCall.who, CustomDeposit(EndingCall.keys))>>
                /\ LosesExactly(EndingCall.who, CustomDeposit(EndingCall.keys))
          /\ (EndingCall.op \in {"signed", "migrate_custom_top"} /\ free' # free) =>
                events' = <<>>
          /\ EventsNamed(events', "Slashed") = {} \/ EventsNamed(events', "Migrated") = {}
      ]_vars

\* migrate_custom_child has slashed its caller for a child key it listed, and
\* the event says so
C23_Witness ==
    /\ pc = "ret"
    /\ call.op = "migrate_custom_child"
    /\ Len(call.keys) = 1
    /\ events = <<Slashed(1, SignedDepositBase + SignedDepositPerItem)>>
    /\ free[1] = InitBalance - SignedDepositBase - SignedDepositPerItem

---------------------------------------------------------------------------
(* Properties of on_initialize and control_auto_migration *)

\* this step is the entry of on_initialize
OnInitializeCalled == pc = "idle" /\ call'.op \in {"on_initialize", "auto"}

\* the step left the store, the stored cursor and totals, and the balances alone
StorageUntouched ==
    /\ top' = top /\ child' = child
    /\ topW' = topW /\ childW' = childW
    /\ MigrationProcess' = MigrationProcess
    /\ free' = free

\* C24: AutoLimits is None at genesis, and while it is None on_initialize
\* returns at once: it makes no read, write or next-key call on the entries to
\* migrate, leaves the stored cursor and totals as they are, deposits no event
\* and returns the weight of one database read.
C24_IdleWithoutLimits ==
    /\ AutoLimits = None
    /\ [][ (OnInitializeCalled /\ AutoLimits = None) =>
             /\ pc' = "ret"
             /\ io' = NoIo
             /\ StorageUntouched
             /\ AutoLimits' = None
             /\ events' = <<>>
             /\ result'.weight = Some([reads |-> 1, writes |-> 0,
                                       process_top_key |-> None, info |-> "none"])
         ]_vars

\* on_initialize has returned idle in the middle of a migration: the limits
\* were taken away after some entries were migrated
C24_Witness ==
    /\ pc = "ret"
    /\ call.op = "on_initialize"
    /\ AutoLimits = None
    /\ MigrationProcess.top_items > 0
    /\ ~finished(MigrationProcess)
    /\ result.weight = Some(reads(1))

\* C25: while AutoLimits is Some(limits), on_initialize loads the stored task
\* with its counters of this call at zero and runs the driver under `limits`;
\* when the driver has returned it stores the task the driver left, deposits
\* exactly one event, Migrated{dyn_top_items, dyn_child_items, Auto}, and
\* returns items x (one read + one write) + process_top_key(dyn_size), with
\* items = dyn_top_items + dyn_child_items of this call.
C25_ActiveAutoTick ==
    [][ /\ (OnInitializeCalled /\ IsSome(AutoLimits)) =>
             /\ call'.op = "auto"
             /\ call'.limits = Unwrap(AutoLimits)
             /\ pc' \in {"loop", "done"}
             /\ task'.current_top = MigrationProcess.current_top
             /\ task'.current_child = MigrationProcess.current_child
             /\ task'.prev_tick_child = MigrationProcess.prev_tick_child
             /\ task'.dyn_top_items = 0 /\ task'.dyn_child_items = 0 /\ task'.dyn_size = 0
             /\ events' = <<>>
        /\ (pc = "done" /\ call.op = "auto") =>
             /\ pc' = "ret"
             /\ MigrationProcess'.current_top = task.current_top
             /\ MigrationProcess'.current_child = task.current_child
             /\ MigrationProcess'.prev_tick_child = task.prev_tick_child
             /\ MigrationProcess'.size = task.size
             /\ MigrationProcess'.top_items = task.top_items
             /\ MigrationProcess'.child_items = task.child_items
             /\ events' = <<Migrated(task.dyn_top_items, task.dyn_child_items, "Auto")>>
             /\ result'.weight =
                   Some([reads |-> task.dyn_top_items + task.dyn_child_items,
                         writes |-> task.dyn_top_items + task.dyn_child_items,
                         process_top_key |-> Some(task.dyn_size),
                         info |-> "none"])
      ]_vars

\* the second active block has returned: its event and weight count the items
\* of this block, fewer than the stored totals
C25_Witness ==
    /\ pc = "ret"
    /\ call.op = "auto"
    /\ Len(events) = 1
    /\ events[1].child > 0
    /\ IsSome(result.weight)
    /\ Unwrap(result.weight).reads = events[1].top + events[1].child
    /\ Unwrap(result.weight).reads < MigrationProcess.top_items + MigrationProcess.child_items
    /\ IsSome(Unwrap(result.weight).process_top_key)
    /\ Unwrap(Unwrap(result.weight).process_top_key) > 0
    /\ Unwrap(Unwrap(result.weight).process_top_key) < MigrationProcess.size

\* C26: control_auto_migration from ControlOrigin (Root) returns Ok and sets
\* AutoLimits to maybe_config, None included; from any other origin it returns
\* an error and AutoLimits stays; in both cases the store, the stored task and
\* the balances are as before and no event is deposited.
C26_ControlSetsLimitsOnly ==
    [][ (pc = "idle" /\ call'.op = "control_auto_migration") =>
          /\ IF call'.origin = "Root"
             THEN result'.ret = "Ok" /\ AutoLimits' = call'.maybe_config
             ELSE result'.ret # "Ok" /\ AutoLimits' = AutoLimits
          /\ StorageUntouched
          /\ events' = <<>>
      ]_vars

\* a signed origin has tried to take the limits away in the middle of a
\* migration, and they are still there
C26_Witness ==
    /\ pc = "ret"
    /\ call.op = "control_auto_migration"
    /\ call.origin = "Signed"
    /\ call.maybe_config = None
    /\ result.ret = "BadOrigin"
    /\ IsSome(AutoLimits)
    /\ MigrationProcess.top_items > 0

---------------------------------------------------------------------------
(* Properties of halt *)

\* the cursors the claim names: current_child present under a current_top
\* whose child trie cannot be named, or under no current_top at all
Inconsistent(t) ==
    /\ IsSome(t.current_child)
    /\ t.current_top = None \/ ~is_child_root(Unwrap(t.current_top))

\* C27: a tick on an inconsistent cursor leaves AutoLimits None and does not
\* reset the cursor (current_top and prev_tick_child stay, and with no
\* current_top the whole cursor stays); while AutoLimits is None on_initialize
\* does nothing; and AutoLimits becomes Some again only by
\* control_auto_migration from Root.
C27_HaltStopsAutoMigration ==
    [][ /\ (pc = "loop" /\ Inconsistent(task)) =>
             /\ AutoLimits' = None
             /\ task'.current_top = task.current_top
             /\ task'.prev_tick_child = task.prev_tick_child
             /\ task.current_top = None => task'.current_child = task.current_child
        /\ (pc = "done" /\ call.op = "auto" /\ AutoLimits = None) =>
             /\ AutoLimits' = None
             /\ MigrationProcess'.current_top = task.current_top
             /\ MigrationProcess'.current_child = task.current_child
             /\ MigrationProcess'.prev_tick_child = task.prev_tick_child
        /\ (OnInitializeCalled /\ AutoLimits = None) =>
             /\ pc' = "ret"
             /\ io' = NoIo
             /\ StorageUntouched
             /\ AutoLimits' = None
             /\ events' = <<>>
        /\ (AutoLimits = None /\ IsSome(AutoLimits')) =>
             /\ pc = "idle"
             /\ call'.op = "control_auto_migration"
             /\ call'.origin = "Root"
      ]_vars

\* on_initialize has returned from its one tick on a cursor with no current_top:
\* the limits it ran under are gone, the stored cursor is still the same
C27_Witness ==
    /\ pc = "ret"
    /\ call.op = "auto"
    /\ io.ticks = 1
    /\ AutoLimits = None
    /\ MigrationProcess.current_top = None
    /\ IsSome(MigrationProcess.current_child)

---------------------------------------------------------------------------
(* Determinism of the driver *)

\* the driver run as a function on the stored task, the store as it is and the
\* limits of the call in progress: what a dry run of that call observes
DryRun ==
    migrate_until_exhaustion(
        [task |-> migration_process, top |-> top, child |-> child,
         topW |-> [k \in TopKeys |-> FALSE],
         childW |-> [id \in ChildIds |-> [k \in ChildKeys |-> FALSE]],
         twice |-> FALSE, io |-> NoIo, halt |-> FALSE],
        call.limits)

---------------------------------------------------------------------------
(* Properties of the stored totals *)

\* a + b, or the largest u32 when the sum is beyond it
SatAdd(a, b) == IF b > U32_MAX - a THEN U32_MAX ELSE a + b

\* this step stores the task of a driver run: the end of on_initialize with
\* limits, or the end of a continue_migrate that returns Ok
StoresTask ==
    /\ pc = "done"
    /\ call.op = "auto" \/ (call.op = "signed" /\ result'.ret = "Ok")

\* C29: the stored size, top_items and child_items never decrease; the end of
\* an on_initialize with limits and the end of a successful continue_migrate
\* add to each the dyn_size, dyn_top_items and dyn_child_items of that call,
\* stopping at the largest u32; every other step, failed calls included, leaves
\* the three as they are.
C29_TotalsOnlyGrow ==
    [][ /\ MigrationProcess'.size >= MigrationProcess.size
        /\ MigrationProcess'.top_items >= MigrationProcess.top_items
        /\ MigrationProcess'.child_items >= MigrationProcess.child_items
        /\ IF StoresTask
           THEN /\ MigrationProcess'.size = SatAdd(MigrationProcess.size, task.dyn_size)
                /\ MigrationProcess'.top_items =
                      SatAdd(MigrationProcess.top_items, task.dyn_top_items)
                /\ MigrationProcess'.child_items =
                      SatAdd(MigrationProcess.child_items, task.dyn_child_items)
           ELSE /\ MigrationProcess'.size = MigrationProcess.size
                /\ MigrationProcess'.top_items = MigrationProcess.top_items
                /\ MigrationProcess'.child_items = MigrationProcess.child_items
      ]_vars

\* an on_initialize has added two top items, two child items and their bytes to
\* totals that had no room for them
C29_Witness ==
    /\ pc = "ret"
    /\ call.op = "auto"
    /\ events = <<Migrated(2, 2, "Auto")>>
    /\ Unwrap(Unwrap(result.weight).process_top_key) >= 2
    /\ MigrationProcess.size = U32_MAX
    /\ MigrationProcess.top_items = U32_MAX
    /\ MigrationProcess.child_items = U32_MAX

---------------------------------------------------------------------------
(* Properties of the cursor after a tick that migrated an entry *)

\* `new` is the least key of `present` above `old`, or None when there is none
IsNextOf(present, old, new) ==
    IF new = None
    THEN \A x \in present : ~LexLess(old, x)
    ELSE /\ Unwrap(new) \in present
         /\ LexLess(old, Unwrap(new))
         /\ \A x \in present : LexLess(old, x) => (x = Unwrap(new) \/ LexLess(Unwrap(new), x))

\* the keys that hold a value in the top trie, and in the child trie under `root`
PresentTopKeys == {k \in TopKeys : IsSome(top[k])}
PresentChildKeys(root) ==
    IF IsSome(child_io_key(root)) /\ Unwrap(child_io_key(root)) \in ChildIds
    THEN {k \in ChildKeys : IsSome(child[Unwrap(child_io_key(root))][k])}
    ELSE {}

\* C30: a tick that counts a top item leaves current_top on the least top key
\* above the one it held, or None; a tick that counts a child item leaves
\* current_child on the least child key above the one it held, or None, and
\* current_top where it was; and no tick leaves current_top or current_child on
\* a key below the one it held, nor current_child on the same key.
C30_CursorStrictlyForward ==
    [][ (pc = "loop") =>
          /\ (task'.dyn_top_items > task.dyn_top_items) =>
                /\ IsSome(task.current_top)
                /\ IsNextOf(PresentTopKeys, Unwrap(task.current_top), task'.current_top)
                /\ task'.current_top # task.current_top
          /\ (task'.dyn_child_items > task.dyn_child_items) =>
                /\ IsSome(task.current_top) /\ IsSome(task.current_child)
                /\ task'.current_top = task.current_top
                /\ IsNextOf(PresentChildKeys(Unwrap(task.current_top)),
                            Unwrap(task.current_child), task'.current_child)
          /\ (IsSome(task.current_top) /\ IsSome(task'.current_top)) =>
                \/ task'.current_top = task.current_top
                \/ LexLess(Unwrap(task.current_top), Unwrap(task'.current_top))
          /\ (IsSome(task.current_child) /\ IsSome(task'.current_child)) =>
                LexLess(Unwrap(task.current_child), Unwrap(task'.current_child))
          /\ (task.current_top = None) => (task'.current_top = None)
      ]_vars

\* one run of the driver has moved current_top over two keys and current_child
\* over two child keys, and is at the end of the child trie
C30_Witness ==
    /\ pc = "loop"
    /\ task.dyn_top_items = 2
    /\ task.dyn_child_items = 2
    /\ task.current_top = Some(Root0)
    /\ task.current_child = None
    /\ childW[<<0>>][<<0>>] /\ childW[<<0>>][<<1>>]

---------------------------------------------------------------------------
(* Properties of the ticks at a child root *)

\* the next tick takes the (true, false) arm, the (true, true) arm
AtDescend(t) ==
    /\ IsSome(t.current_top) /\ is_child_root(Unwrap(t.current_top))
    /\ t.current_child = None /\ ~t.prev_tick_child
AtAscend(t) ==
    /\ IsSome(t.current_top) /\ is_child_root(Unwrap(t.current_top))
    /\ t.current_child = None /\ t.prev_tick_child

\* the counters of the call did not move
NothingCounted ==
    /\ task'.dyn_top_items = task.dyn_top_items
    /\ task'.dyn_child_items = task.dyn_child_items
    /\ task'.dyn_size = task.dyn_size

\* C31: the tick on (child root, no current_child, prev_tick_child = false)
\* makes one read and one next-key call and no write, counts no item and no
\* byte, leaves current_child on the least child key above the empty key, or
\* None when there is none, sets prev_tick_child and leaves current_top.
C31_DescendStep ==
    [][ (pc = "loop" /\ AtDescend(task)) =>
          /\ io'.reads = io.reads + 1
          /\ io'.nexts = io.nexts + 1
          /\ io'.writes = io.writes
          /\ top' = top /\ child' = child /\ topW' = topW /\ childW' = childW
          /\ NothingCounted
          /\ IsNextOf(PresentChildKeys(Unwrap(task.current_top)), <<>>, task'.current_child)
          /\ task'.prev_tick_child
          /\ task'.current_top = task.current_top
      ]_vars

\* the tick has gone down into a child trie that holds a value under the empty
\* key: the value was read, nothing is counted, current_child is past it
C31_Witness ==
    /\ pc = "loop"
    /\ task.current_top = Some(Root0)
    /\ task.current_child = Some(<<1>>)
    /\ task.prev_tick_child
    /\ IsSome(child[<<0>>][<<>>])
    /\ io.last_len = Unwrap(child[<<0>>][<<>>])
    /\ task.dyn_child_items = 0
    /\ task.dyn_size = Unwrap(top[KeyA])

\* C32: the tick on (child root, no current_child, prev_tick_child = true)
\* clears prev_tick_child, sets the child root itself in the top trie, counts one
\* top item and its bytes, and leaves current_top on the next top key; and the
\* descend tick into a child trie with no key above the empty key leaves exactly
\* that cursor, so such a child root takes two ticks.
C32_AscendStep ==
    [][ /\ (pc = "loop" /\ AtAscend(task)) =>
             /\ ~task'.prev_tick_child
             /\ topW'[Unwrap(task.current_top)]
             /\ io'.reads = io.reads + 1
             /\ io'.writes = io.writes + 1
             /\ childW' = childW
             /\ task'.dyn_top_items = task.dyn_top_items + 1
             /\ task'.dyn_child_items = task.dyn_child_items
             /\ task'.dyn_size = task.dyn_size + Unwrap(top[Unwrap(task.current_top)])
             /\ IsNextOf(PresentTopKeys, Unwrap(task.current_top), task'.current_top)
             /\ task'.current_child = None
        /\ (pc = "loop" /\ AtDescend(task)
              /\ PresentChildKeys(Unwrap(task.current_top)) \subseteq {<<>>}) =>
             /\ pc' = "loop"
             /\ AtAscend(task')
             /\ task'.current_top = task.current_top
      ]_vars

\* two ticks at a child root with an empty child trie: the root is set, no child
\* entry is, and current_top is on the next child root
C32_Witness ==
    /\ pc = "loop"
    /\ io.ticks = 3
    /\ task.dyn_top_items = 2
    /\ task.dyn_child_items = 0
    /\ topW[Root0]
    /\ PresentChildKeys(Root0) = {}
    /\ task.current_top = Some(Root1)
    /\ ~task.prev_tick_child

---------------------------------------------------------------------------
(* migrate_custom_top with no key and a declared size of one byte *)

\* C33: migrate_custom_top with an empty list of keys and witness_size = 1,
\* called at the default cursor by an account that covers the deposit, returns
\* an error, the free balance of the caller is lower afterwards, and the stored
\* task is still the default.
C33_CustomTopEmptyListSlashed ==
    [][ (CustomTopCalled /\ call'.keys = <<>> /\ call'.real_size_upper = 1
           /\ MigrationProcess = Encode(DefaultTask)) =>
          /\ result'.ret # "Ok"
          /\ free'[call'.who] < free[call'.who]
          /\ MigrationProcess' = Encode(DefaultTask)
      ]_vars

---------------------------------------------------------------------------
(* The weight continue_migrate reports *)

\* C34: a continue_migrate that returns Ok reports the weight
\* items x (one read + one write) + process_top_key(dyn_size) + the fixed
\* continue_migrate term, with items = dyn_top_items + dyn_child_items of the
\* call.
C34_ContinueWeightOfItemsTouched ==
    [][ (ContinueMigrateReturns /\ result'.ret = "Ok") =>
          result'.weight =
             Some([reads |-> task.dyn_top_items + task.dyn_child_items,
                   writes |-> task.dyn_top_items + task.dyn_child_items,
                   process_top_key |-> Some(task.dyn_size),
                   info |-> "continue_migrate"])
      ]_vars

---------------------------------------------------------------------------
(* The invariant of prev_tick_child *)

\* prev_tick_child is set only on a child root, and current_child is present
\* only while prev_tick_child is set
FlagAndChild(t) ==
    /\ t.prev_tick_child => (IsSome(t.current_top) /\ is_child_root(Unwrap(t.current_top)))
    /\ IsSome(t.current_child) => t.prev_tick_child

\* C35: in every state reached from genesis, the stored task and the task of
\* the call in progress have prev_tick_child set only while current_top is a
\* child root, and current_child present only while prev_tick_child is set; so no
\* tick finds a top key that is no child root with prev_tick_child set, and
\* AutoLimits goes from Some to None by control_auto_migration alone, never by
\* a tick.
C35_PrevTickChildInvariant ==
    /\ [](FlagAndChild(MigrationProcess) /\ FlagAndChild(task))
    /\ [][ /\ pc = "loop" =>
                ~(IsSome(task.current_top) /\ ~is_child_root(Unwrap(task.current_top))
                    /\ task.current_child = None /\ task.prev_tick_child)
           /\ (IsSome(AutoLimits) /\ AutoLimits' = None) =>
                (pc = "idle" /\ call'.op = "control_auto_migration")
         ]_vars

\* a call that began inside a child trie has set the last child entry and is
\* about to go back to the child root
C35_Witness ==
    /\ pc = "loop"
    /\ MigrationProcess.prev_tick_child
    /\ IsSome(MigrationProcess.current_child)
    /\ task.prev_tick_child
    /\ task.current_child = None
    /\ task.current_top = MigrationProcess.current_top
    /\ task.dyn_child_items > 0

---------------------------------------------------------------------------
(* The work of one call of the driver *)

\* the driver has returned from its loop: the limits were both positive
DriverRan == pc = "done" /\ ~(call.limits.item = 0 \/ call.limits.size = 0)

\* C36: when the driver returns from a call with limits.item > 0 and
\* limits.size > 0, it has run at most 2 x limits.item ticks, read at most
\* 2 x limits.item values and written at most limits.item values.
C36_BoundedWork ==
    (DriverRan /\ call.limits.item <= MaxTicks) =>
        /\ io.ticks <= 2 * call.limits.item
        /\ io.reads <= 2 * call.limits.item
        /\ io.writes <= call.limits.item

\* a call with limits.item = 2 that took four ticks: two child roots, a descend
\* tick and a counted tick at each
C36_Witness ==
    /\ pc = "done"
    /\ call.limits.item = 2
    /\ io.ticks = 4
    /\ io.reads = 4
    /\ io.writes = 2

\* C37: when the driver returns from a call with positive limits that began on
\* a stored cursor that is not finished, it has counted at least one item and
\* the cursor of its task (current_top, current_child, prev_tick_child) is not
\* the stored one, though the two keys may be: a walk of a whole child trie ends
\* on the child root it began on, with prev_tick_child set; and the driver
\* never returns from the descend tick.
C37_ProgressPerCall ==
    /\ []((DriverRan /\ ~finished(MigrationProcess)) =>
            /\ task.dyn_top_items + task.dyn_child_items >= 1
            /\ ~SameCursor(task, MigrationProcess))
    /\ [][ (pc = "loop" /\ AtDescend(task)) => pc' = "loop" ]_vars

\* a call with limits.item = 1 that began at a child root: the descend tick,
\* then the first child entry, and the driver has returned
C37_Witness ==
    /\ pc = "done"
    /\ call.limits.item = 1
    /\ AtDescend(MigrationProcess)
    /\ io.ticks = 2
    /\ task.dyn_child_items = 1
    /\ task.dyn_top_items = 0

---------------------------------------------------------------------------
(* The totals of a whole walk *)

\* the keys of the model in their order
AllTopKeys == <<KeyA, Root0, Root1, KeyZ>>
NonEmptyChildKeys == << <<0>>, <<1>> >>

\* the child tries whose root is a key of the genesis top trie
RootedChildIds == {id \in ChildIds : IsSome(top0[DEFAULT_CHILD_STORAGE_KEY_PREFIX \o id])}

\* the entries of the genesis child tries under a key that is not empty
WalkedChildEntries ==
    {e \in RootedChildIds \X Range(NonEmptyChildKeys) : IsSome(child0[e[1]][e[2]])}

\* the bytes of those entries
WalkedChildBytes ==
    (IF <<0>> \in RootedChildIds THEN ChildBytes(child0[<<0>>], NonEmptyChildKeys) ELSE 0)
    + (IF <<1>> \in RootedChildIds THEN ChildBytes(child0[<<1>>], NonEmptyChildKeys) ELSE 0)

\* C38: once on_initialize and continue_migrate have brought the stored cursor
\* from its default to (None, None), the stored top_items is the number of top
\* keys plus one, child_items is the number of child entries with a key that is
\* not empty under the child roots of the top trie, and size is the sum of the
\* lengths of the values of those top and child entries.
C38_TotalsOfWholeWalk ==
    finished(MigrationProcess) =>
        /\ MigrationProcess.top_items
              = Cardinality({k \in TopKeys : IsSome(top0[k])}) + 1
        /\ MigrationProcess.child_items = Cardinality(WalkedChildEntries)
        /\ MigrationProcess.size = TopBytes(top0, AllTopKeys) + WalkedChildBytes

\* continue_migrate has ended a walk that earlier calls began, over a store
\* with three top keys and a child trie of two entries
C38_Witness ==
    /\ pc = "ret"
    /\ call.op = "signed"
    /\ result.ret = "Ok"
    /\ events = <<Migrated(1, 0, "Signed")>>
    /\ finished(MigrationProcess)
    /\ MigrationProcess.top_items = 4
    /\ MigrationProcess.child_items = 2
    /\ MigrationProcess.size > 0

---------------------------------------------------------------------------
(* The finished cursor *)

\* this step belongs to on_initialize or to continue_migrate
MigrationStep ==
    \/ pc \in {"loop", "done"}
    \/ pc = "idle" /\ call'.op \in {"on_initialize", "auto", "continue_migrate", "signed"}

\* C39: once the stored cursor is (None, None), every step of on_initialize and
\* of continue_migrate leaves the stored task, cursor and totals, the store and
\* the balances as they are; the driver counts no item and no byte and sets no
\* entry; and a continue_migrate whose witness is the stored task returns Ok
\* with Migrated{0, 0, Signed}, whatever real_size_upper it declared.
C39_FinishedIsAbsorbing ==
    [][ (finished(MigrationProcess) /\ MigrationStep) =>
          /\ MigrationProcess' = MigrationProcess
          /\ top' = top /\ child' = child
          /\ topW' = topW /\ childW' = childW
          /\ free' = free
          /\ io'.writes = 0
          /\ task'.dyn_top_items = 0 /\ task'.dyn_child_items = 0 /\ task'.dyn_size = 0
          /\ (pc = "done" /\ call.op = "signed") =>
                (result'.ret = "Ok" /\ events' = <<Migrated(0, 0, "Signed")>>)
          /\ (pc = "done" /\ call.op = "auto") => events' = <<Migrated(0, 0, "Auto")>>
      ]_vars

\* continue_migrate has returned Ok on a finished cursor: one tick that did
\* nothing, with real_size_upper = 0
C39_Witness ==
    /\ pc = "ret"
    /\ call.op = "signed"
    /\ finished(MigrationProcess)
    /\ MigrationProcess.top_items > 1
    /\ call.real_size_upper = 0
    /\ io.ticks = 1
    /\ io.reads = 0
    /\ result.ret = "Ok"
    /\ events = <<Migrated(0, 0, "Signed")>>
    /\ free[call.who] = InitBalance

---------------------------------------------------------------------------
(* The driver on any stored cursor *)

\* C40: from every stored cursor, with positive limits, the loop of the driver
\* comes to its end: a call that has entered the loop returns from it.
C40_DriverReturns == (pc = "loop") ~> (pc = "done")

====
